---- MODULE Spec2Model ----
(***************************************************************************)
(* Room session and secure synchronisation layer of the chat-room store    *)
(* (src/src/stores/roomStore.ts).                                          *)
(*                                                                         *)
(* A JavaScript string is a sequence of UTF-16 code units, a Uint8Array a  *)
(* sequence of bytes, and an unsigned 32-bit integer a pair <<hi, lo>> of  *)
(* 16-bit halves, so that no intermediate value leaves the range of the    *)
(* integers the model checker computes with.                               *)
(***************************************************************************)
EXTENDS Integers, Sequences, FiniteSets, TLC

(***************************************************************************)
(* Bit arithmetic                                                          *)
(***************************************************************************)

\* Bit k of a ^ b, in place.
XorBit(a, b, k) == ((((a \div (2 ^ k)) % 2) + ((b \div (2 ^ k)) % 2)) % 2) * (2 ^ k)

\* a ^ b on four-bit operands, tabulated.
XorNibble ==
  [a \in 0..15 |-> [b \in 0..15 |->
     XorBit(a, b, 0) + XorBit(a, b, 1) + XorBit(a, b, 2) + XorBit(a, b, 3)]]

\* a ^ b on bytes.
Xor8(a, b) == XorNibble[a % 16][b % 16] + (16 * XorNibble[a \div 16][b \div 16])

\* a ^ b on 16-bit operands.
Xor16(a, b) == Xor8(a % 256, b % 256) + (256 * Xor8(a \div 256, b \div 256))

\* (a * b) mod 2^16 for 16-bit a and b, without leaving 31 bits.
MulLow16(a, b) == (((a % 256) * b) + (256 * (((a \div 256) * b) % 256))) % 65536

\* (a * b) div 2^16 for 16-bit a and b, without leaving 31 bits.
MulHigh16(a, b) ==
  ((((a % 256) * b) + (256 * (((a \div 256) * b) % 256))) \div 65536)
    + (((a \div 256) * b) \div 256)

\* (w + c) >>> 0 for a 32-bit w and a code unit c.
W32Add(w, c) == <<(w[1] + ((w[2] + c) \div 65536)) % 65536, (w[2] + c) % 65536>>

W32Xor(a, b) == <<Xor16(a[1], b[1]), Xor16(a[2], b[2])>>

\* w >>> k, 0 < k < 32.
W32Shr(w, k) ==
  IF k >= 16 THEN <<0, w[1] \div (2 ^ (k - 16))>>
  ELSE <<w[1] \div (2 ^ k), (w[2] \div (2 ^ k)) + ((w[1] % (2 ^ k)) * (2 ^ (16 - k)))>>

\* (w << k) >>> 0, 0 < k < 16.
W32Shl(w, k) ==
  <<((w[1] * (2 ^ k)) % 65536) + (w[2] \div (2 ^ (16 - k))), (w[2] * (2 ^ k)) % 65536>>

\* Math.imul(a, b) >>> 0.
W32Imul(a, b) ==
  <<(MulHigh16(a[2], b[2]) + MulLow16(a[1], b[2]) + MulLow16(a[2], b[1])) % 65536,
    MulLow16(a[2], b[2])>>

(***************************************************************************)
(* Strings                                                                 *)
(***************************************************************************)

\* 'play-chat-secret-seed'
SECRET_SEED ==
  <<112, 108, 97, 121, 45, 99, 104, 97, 116, 45, 115, 101, 99, 114, 101, 116,
    45, 115, 101, 101, 100>>

\* ['ws://8.152.98.245:23333/signal?room=<id>']
SIGNALING_ENDPOINTS ==
  <<<<
   119, 115, 58, 47, 47, 56, 46, 49, 53, 50, 46, 57, 56, 46, 50, 52, 53,
   58, 50, 51, 51, 51, 51, 47, 115, 105, 103, 110, 97, 108, 63, 114, 111,
   111, 109, 61, 60, 105, 100, 62
  >>>>

\* 'enc::v1::'
ENCRYPTION_PREFIX == <<101, 110, 99, 58, 58, 118, 49, 58, 58>>

\* '[消息解密失败]', what decryptContent returns when decoding throws.
DECRYPT_FAILED == <<91, 28040, 24687, 35299, 23494, 22833, 36133, 93>>

\* '匿名旅人'
DEFAULT_USERNAME == <<21311, 21517, 26053, 20154>>

\* '系统'
SYSTEM_USERNAME == <<31995, 32479>>

\* 'system'
SYSTEM_USERID == <<115, 121, 115, 116, 101, 109>>

startsWith(s, p) == Len(s) >= Len(p) /\ SubSeq(s, 1, Len(p)) = p

slice(s, from) == SubSeq(s, from + 1, Len(s))

\* WhiteSpace and LineTerminator code units, which String.prototype.trim strips.
IsWhiteSpace(c) ==
  \/ c \in {9, 10, 11, 12, 13, 32, 160, 5760, 8232, 8233, 8239, 8287, 12288, 65279}
  \/ c \in 8192..8202

RECURSIVE trimStart(_)
trimStart(s) ==
  IF s = <<>> THEN s
  ELSE IF IsWhiteSpace(Head(s)) THEN trimStart(Tail(s)) ELSE s

RECURSIVE trimEnd(_)
trimEnd(s) ==
  IF s = <<>> THEN s
  ELSE IF IsWhiteSpace(s[Len(s)]) THEN trimEnd(SubSeq(s, 1, Len(s) - 1)) ELSE s

trim(s) == trimEnd(trimStart(s))

toUpperCaseUnit(c) == IF c \in 97..122 THEN c - 32 ELSE c

toUpperCase(s) == [i \in 1..Len(s) |-> toUpperCaseUnit(s[i])]

normalizeRoomId(roomId) == toUpperCase(trim(roomId))

(***************************************************************************)
(* UTF-8 and base64, as the host's TextEncoder, TextDecoder, btoa and atob *)
(* compute them                                                            *)
(***************************************************************************)

IsHighSurrogate(c) == c \in 55296..56319

IsLowSurrogate(c) == c \in 56320..57343

utf8OfCodePoint(cp) ==
  IF cp < 128 THEN <<cp>>
  ELSE IF cp < 2048 THEN <<192 + (cp \div 64), 128 + (cp % 64)>>
  ELSE IF cp < 65536
    THEN <<224 + (cp \div 4096), 128 + ((cp \div 64) % 64), 128 + (cp % 64)>>
  ELSE <<240 + (cp \div 262144), 128 + ((cp \div 4096) % 64),
         128 + ((cp \div 64) % 64), 128 + (cp % 64)>>

unitsOfCodePoint(cp) ==
  IF cp < 65536 THEN <<cp>>
  ELSE <<55296 + ((cp - 65536) \div 1024), 56320 + ((cp - 65536) % 1024)>>

\* textEncoder.encode(input): a surrogate pair is one code point, an unpaired
\* surrogate is encoded as U+FFFD.
RECURSIVE encodeUtf8(_)
encodeUtf8(input) ==
  IF input = <<>> THEN <<>>
  ELSE IF IsHighSurrogate(input[1]) /\ Len(input) >= 2 /\ IsLowSurrogate(input[2])
    THEN utf8OfCodePoint(65536 + ((input[1] - 55296) * 1024) + (input[2] - 56320))
           \o encodeUtf8(SubSeq(input, 3, Len(input)))
  ELSE IF IsHighSurrogate(input[1]) \/ IsLowSurrogate(input[1])
    THEN <<239, 191, 189>> \o encodeUtf8(Tail(input))
  ELSE utf8OfCodePoint(input[1]) \o encodeUtf8(Tail(input))

\* The UTF-8 decoder of a non-fatal TextDecoder: every maximal ill-formed
\* subsequence becomes U+FFFD.
RECURSIVE utf8Decode(_, _, _, _, _, _, _)
utf8Decode(bytes, i, cp, needed, seen, lower, upper) ==
  IF i > Len(bytes) THEN (IF needed # 0 THEN <<65533>> ELSE <<>>)
  ELSE
    LET b == bytes[i] IN
    IF needed = 0 THEN
      IF b <= 127 THEN <<b>> \o utf8Decode(bytes, i + 1, 0, 0, 0, 128, 191)
      ELSE IF b \in 194..223 THEN utf8Decode(bytes, i + 1, b % 32, 1, 0, 128, 191)
      ELSE IF b \in 224..239
        THEN utf8Decode(bytes, i + 1, b % 16, 2, 0,
                        IF b = 224 THEN 160 ELSE 128, IF b = 237 THEN 159 ELSE 191)
      ELSE IF b \in 240..244
        THEN utf8Decode(bytes, i + 1, b % 8, 3, 0,
                        IF b = 240 THEN 144 ELSE 128, IF b = 244 THEN 143 ELSE 191)
      ELSE <<65533>> \o utf8Decode(bytes, i + 1, 0, 0, 0, 128, 191)
    ELSE IF b \notin lower..upper
      THEN <<65533>> \o utf8Decode(bytes, i, 0, 0, 0, 128, 191)
    ELSE
      LET next == (cp * 64) + (b % 64) IN
      IF seen + 1 = needed
        THEN unitsOfCodePoint(next) \o utf8Decode(bytes, i + 1, 0, 0, 0, 128, 191)
        ELSE utf8Decode(bytes, i + 1, next, needed, seen + 1, 128, 191)

\* What the decoder does with a byte order mark at the start of its output.
stripBOM(units) == IF units # <<>> /\ units[1] = 65279 THEN Tail(units) ELSE units

\* textDecoder.decode(bytes): the decoder was built without ignoreBOM, so a
\* leading U+FEFF is dropped.
decodeUtf8(bytes) == stripBOM(utf8Decode(bytes, 1, 0, 0, 0, 128, 191))

base64Char(v) ==
  IF v < 26 THEN 65 + v
  ELSE IF v < 52 THEN 97 + (v - 26)
  ELSE IF v < 62 THEN 48 + (v - 52)
  ELSE IF v = 62 THEN 43 ELSE 47

IsBase64Char(c) == c \in 65..90 \/ c \in 97..122 \/ c \in 48..57 \/ c \in {43, 47}

base64Value(c) ==
  IF c \in 65..90 THEN c - 65
  ELSE IF c \in 97..122 THEN (c - 97) + 26
  ELSE IF c \in 48..57 THEN (c - 48) + 52
  ELSE IF c = 43 THEN 62 ELSE 63

\* btoa over the bytes of data.
RECURSIVE toBase64(_)
toBase64(data) ==
  IF data = <<>> THEN <<>>
  ELSE IF Len(data) = 1
    THEN <<base64Char(data[1] \div 4), base64Char((data[1] % 4) * 16), 61, 61>>
  ELSE IF Len(data) = 2
    THEN <<base64Char(data[1] \div 4),
           base64Char(((data[1] % 4) * 16) + (data[2] \div 16)),
           base64Char((data[2] % 16) * 4), 61>>
  ELSE <<base64Char(data[1] \div 4),
         base64Char(((data[1] % 4) * 16) + (data[2] \div 16)),
         base64Char(((data[2] % 16) * 4) + (data[3] \div 64)),
         base64Char(data[3] % 64)>> \o toBase64(SubSeq(data, 4, Len(data)))

RECURSIVE removeAsciiWhitespace(_)
removeAsciiWhitespace(s) ==
  IF s = <<>> THEN s
  ELSE IF Head(s) \in {9, 10, 12, 13, 32} THEN removeAsciiWhitespace(Tail(s))
  ELSE <<Head(s)>> \o removeAsciiWhitespace(Tail(s))

stripPadding(s) ==
  IF Len(s) % 4 # 0 \/ s = <<>> THEN s
  ELSE IF s[Len(s)] # 61 THEN s
  ELSE IF s[Len(s) - 1] = 61 THEN SubSeq(s, 1, Len(s) - 2)
  ELSE SubSeq(s, 1, Len(s) - 1)

RECURSIVE base64Bytes(_)
base64Bytes(s) ==
  IF Len(s) < 2 THEN <<>>
  ELSE IF Len(s) = 2
    THEN <<(base64Value(s[1]) * 4) + (base64Value(s[2]) \div 16)>>
  ELSE IF Len(s) = 3
    THEN <<(base64Value(s[1]) * 4) + (base64Value(s[2]) \div 16),
           ((base64Value(s[2]) % 16) * 16) + (base64Value(s[3]) \div 4)>>
  ELSE <<(base64Value(s[1]) * 4) + (base64Value(s[2]) \div 16),
         ((base64Value(s[2]) % 16) * 16) + (base64Value(s[3]) \div 4),
         ((base64Value(s[3]) % 4) * 64) + base64Value(s[4])>>
         \o base64Bytes(SubSeq(s, 5, Len(s)))

\* atob on a string cleared of ASCII whitespace and padding: [ok |-> FALSE]
\* stands for the InvalidCharacterError it throws.
atob(s) ==
  IF Len(s) % 4 = 1 \/ \E i \in 1..Len(s) : ~IsBase64Char(s[i])
    THEN [ok |-> FALSE, bytes |-> <<>>]
    ELSE [ok |-> TRUE, bytes |-> base64Bytes(s)]

fromBase64(value) == atob(stripPadding(removeAsciiWhitespace(value)))

(***************************************************************************)
(* Content cipher                                                          *)
(***************************************************************************)

\* 0x6d2b79f5
KEY_INITIAL_STATE == <<27947, 31221>>

\* 0x2c1b3c6d
KEY_MULTIPLIER == <<11291, 15469>>

\* The unsigned 32-bit values.
Word32 == (0..65535) \X (0..65535)

\* state = Math.imul(state ^ (state >>> 15), 0x2c1b3c6d) >>> 0
scramble(state) == W32Imul(W32Xor(state, W32Shr(state, 15)), KEY_MULTIPLIER)

\* One round of the seeding loop.
mixChar(state, code) == scramble(W32Add(state, code))

\* The seeding loop from index on; every round leaves a 32-bit state.
RECURSIVE mixSeed(_, _, _)
mixFrom(base, index, mixed) ==
  CASE mixed \in Word32 -> mixSeed(base, index + 1, mixed)

mixSeed(base, index, state) ==
  IF index > Len(base) THEN state
  ELSE mixFrom(base, index, mixChar(state, base[index]))

\* The state after the loop has mixed in `${SECRET_SEED}:`, the part of base
\* that is the same for every room.
SeedPrefixState == mixSeed(SECRET_SEED \o <<58>>, 1, KEY_INITIAL_STATE)

\* if (state === 0) state = 0x6d2b79f5
nonZero(state) == IF state = <<0, 0>> THEN KEY_INITIAL_STATE ELSE state

\* The generator state createKeyStream leaves in its closure.
createKeyStream(roomId) == nonZero(mixSeed(roomId, 1, SeedPrefixState))

\* state ^= state << 13; state ^= state >>> 17; state ^= state << 5
shiftLeft13(state) == W32Xor(state, W32Shl(state, 13))

shiftRight17(state) == W32Xor(state, W32Shr(state, 17))

shiftLeft5(state) == W32Xor(state, W32Shl(state, 5))

\* One call of the closure: the state it leaves; the byte returned is its
\* low eight bits.
nextState(state) == shiftLeft5(shiftRight17(shiftLeft13(state)))

\* The first count bytes the closure returns, from the state it starts in.
RECURSIVE keyBytes(_, _)
keyBytesFrom(state1, count) ==
  CASE state1 \in Word32 -> <<state1[2] % 256>> \o keyBytes(state1, count - 1)

keyBytes(state, count) ==
  IF count = 0 THEN <<>> ELSE keyBytesFrom(nextState(state), count)

\* The rooms whose key stream is computed once and kept: 'A', 'B', 'N', '3'.
KeyStreamRooms == {<<65>>, <<66>>, <<78>>, <<51>>}

\* The first 48 bytes of each of these rooms' key streams.
KeyStreamCache == [roomId \in KeyStreamRooms |-> keyBytes(createKeyStream(roomId), 48)]

\* The first count bytes of createKeyStream(roomId)'s closure.
keyStream(roomId, count) ==
  IF roomId \in KeyStreamRooms /\ count <= 48
    THEN SubSeq(KeyStreamCache[roomId], 1, count)
    ELSE keyBytes(createKeyStream(roomId), count)

\* xorBytes returning the source as it is.
maskNothing(source, key) == source

\* source[index] ^ next() for every index.
mask(source, key) == [index \in 1..Len(source) |-> Xor8(source[index], key[index])]

xorBytes(roomId, source) == mask(source, keyStream(roomId, Len(source)))

\* encryptContent without the version tag in front of the Base64 text.
encryptUntagged(roomId, content) ==
  IF Len(content) = 0 THEN content
  ELSE toBase64(xorBytes(roomId, encodeUtf8(content)))

encryptContent(roomId, content) ==
  IF Len(content) = 0 THEN content
  ELSE ENCRYPTION_PREFIX \o toBase64(xorBytes(roomId, encodeUtf8(content)))

\* The try block of decryptContent on what atob returned or threw.
decryptDecoded(roomId, decoded) ==
  IF decoded.ok THEN decodeUtf8(xorBytes(roomId, decoded.bytes)) ELSE DECRYPT_FAILED

\* decryptContent without the test of the version tag.
decryptUntagged(roomId, payload) ==
  decryptDecoded(roomId, fromBase64(slice(payload, Len(ENCRYPTION_PREFIX))))

decryptContent(roomId, payload) ==
  IF ~startsWith(payload, ENCRYPTION_PREFIX) THEN payload
  ELSE decryptDecoded(roomId, fromBase64(slice(payload, Len(ENCRYPTION_PREFIX))))

(***************************************************************************)
(* The texts the steps put on the wire                                     *)
(***************************************************************************)

\* The local users: u named 'x', and v whose name is blank.
Users == {[id |-> <<117>>, username |-> <<120>>], [id |-> <<118>>, username |-> <<32>>]}

\* What callers pass sendMessage as content: ' h', ' '.
ChatInputs == {<<32, 104>>, <<32>>}

\* What callers pass recordSystemMessage as content: 'n', ''.
Notice == <<110>>

SystemInputs == {Notice, <<>>}

\* The name an announcement shows: user.username.trim() || DEFAULT_USERNAME.
announcedName(user) ==
  IF Len(trim(user.username)) > 0 THEN trim(user.username) ELSE DEFAULT_USERNAME

\* `欢迎「${name}」加入`
joinedText(user) == <<27426, 36814, 12300>> \o announcedName(user) \o <<12301, 21152, 20837>>

\* `「${name}」已离开`
leftText(user) == <<12300>> \o announcedName(user) \o <<12301, 24050, 31163, 24320>>

\* The texts peers encrypt: 'h', 'g', ' ', ''.
PeerTexts == {<<104>>, <<103>>, <<32>>, <<>>}

\* What peers write as content without this cipher: 'p' in the clear, a tag
\* with nothing behind it, a tag followed by '!'.
ForeignContents == {<<112>>, ENCRYPTION_PREFIX, ENCRYPTION_PREFIX \o <<33>>}

\* The rooms whose sessions the steps open.
WireRooms == {<<65>>, <<66>>}

WireTexts ==
  {trim(content) : content \in ChatInputs} \cup SystemInputs \cup PeerTexts
    \cup {joinedText(user) : user \in Users} \cup {leftText(user) : user \in Users}

\* encryptContent tabulated for these rooms and texts, and decryptContent for
\* what the table holds and for ForeignContents.
EncryptCache ==
  [roomId \in WireRooms |-> [text \in WireTexts |-> encryptContent(roomId, text)]]

decryptAll(contents) ==
  [roomId \in WireRooms |-> [payload \in contents |-> decryptContent(roomId, payload)]]

contentsOf(cache) ==
  {cache[roomId][text] : roomId \in WireRooms, text \in WireTexts} \cup ForeignContents

DecryptCache == decryptAll(contentsOf(EncryptCache))

\* The value a table holds for roomId and key, and otherwise where it holds none.
tabulated(table, roomId, key, otherwise) ==
  IF roomId \in DOMAIN table
    THEN IF key \in DOMAIN table[roomId] THEN table[roomId][key] ELSE otherwise
    ELSE otherwise

\* encryptContent(roomId, content), read from the table where it holds it.
cipherText(roomId, content) ==
  tabulated(EncryptCache, roomId, content, encryptContent(roomId, content))

\* decryptContent(roomId, payload), read from the table where it holds it.
plainText(roomId, payload) ==
  tabulated(DecryptCache, roomId, payload, decryptContent(roomId, payload))

(***************************************************************************)
(* Untrusted values                                                        *)
(*                                                                         *)
(* A value read from the replicated document is a tagged record: its       *)
(* typeof and, for a string, its code units, for a number, its value.     *)
(* NaN is the number with no value.                                        *)
(***************************************************************************)

Undefined == [t |-> "undefined", v |-> <<>>]

Str(s) == [t |-> "string", v |-> s]

Num(n) == [t |-> "number", v |-> <<n>>]

NaN == [t |-> "number", v |-> <<>>]

Bool(b) == [t |-> "boolean", v |-> <<IF b THEN 1 ELSE 0>>]

IsString(x) == x.t = "string"

IsNumber(x) == x.t = "number"

IsNaN(x) == x.t = "number" /\ x.v = <<>>

\* An entry of the replicated log as a peer may have written it: object is
\* FALSE for null and for a primitive, and a property the entry lacks is
\* Undefined.
RawMessage(id, type, userId, username, content, timestamp, encrypted) ==
  [object |-> TRUE, id |-> id, type |-> type, userId |-> userId,
   username |-> username, content |-> content, timestamp |-> timestamp,
   encrypted |-> encrypted]

NotAnObject ==
  [object |-> FALSE, id |-> Undefined, type |-> Undefined, userId |-> Undefined,
   username |-> Undefined, content |-> Undefined, timestamp |-> Undefined,
   encrypted |-> Undefined]

\* 'system' and 'chat', the two values of MessageType.
TYPE_SYSTEM == <<115, 121, 115, 116, 101, 109>>

TYPE_CHAT == <<99, 104, 97, 116>>

\* The value of the draw-th call of crypto.randomUUID(): '#' and the number of
\* the draw, so that two draws never return the same id.
generateMessageId(draw) == <<35, draw>>

\* sanitizeMessage dropping every entry of empty content, whatever its type.
sanitizedOfAnyType(payload, type, rawContent, normalizedContent, draws, clock) ==
  IF Len(normalizedContent) = 0 THEN <<>>
  ELSE <<[id |-> IF IsString(payload.id) /\ Len(trim(payload.id.v)) > 0
                   THEN payload.id.v ELSE generateMessageId(draws + 1),
          type |-> type,
          userId |-> IF IsString(payload.userId) THEN payload.userId.v ELSE SYSTEM_USERID,
          username |-> IF IsString(payload.username) /\ Len(trim(payload.username.v)) > 0
                         THEN payload.username.v ELSE DEFAULT_USERNAME,
          content |-> normalizedContent,
          timestamp |-> IF IsNumber(payload.timestamp) THEN payload.timestamp ELSE Num(clock),
          encrypted |-> startsWith(rawContent, ENCRYPTION_PREFIX)
                          \/ payload.encrypted = Bool(TRUE)]>>

\* The record sanitizeMessage builds from an object and its decrypted,
\* trimmed content: <<>> for null, else the record in a one-element sequence.
sanitized(payload, type, rawContent, normalizedContent, draws, clock) ==
  IF type = "chat" /\ Len(normalizedContent) = 0 THEN <<>>
  ELSE <<[id |-> IF IsString(payload.id) /\ Len(trim(payload.id.v)) > 0
                   THEN payload.id.v ELSE generateMessageId(draws + 1),
          type |-> type,
          userId |-> IF IsString(payload.userId) THEN payload.userId.v ELSE SYSTEM_USERID,
          username |-> IF IsString(payload.username) /\ Len(trim(payload.username.v)) > 0
                         THEN payload.username.v ELSE DEFAULT_USERNAME,
          content |-> normalizedContent,
          timestamp |-> IF IsNumber(payload.timestamp) THEN payload.timestamp ELSE Num(clock),
          encrypted |-> startsWith(rawContent, ENCRYPTION_PREFIX)
                          \/ payload.encrypted = Bool(TRUE)]>>

sanitizeObject(payload, roomId, type, rawContent, draws, clock) ==
  sanitized(payload, type, rawContent, trim(plainText(roomId, rawContent)), draws, clock)

\* sanitizeMessage(payload, roomId), evaluated when the clock reads clock and
\* draws calls of generateMessageId have been made.
sanitizeMessage(payload, roomId, draws, clock) ==
  IF ~payload.object THEN <<>>
  ELSE sanitizeObject(payload, roomId,
                      IF payload.type = Str(TYPE_SYSTEM) THEN "system" ELSE "chat",
                      IF IsString(payload.content) THEN payload.content.v ELSE <<>>,
                      draws, clock)

\* Whether sanitizeMessage, having admitted payload, called generateMessageId.
drawsId(payload) == ~(IsString(payload.id) /\ Len(trim(payload.id.v)) > 0)

\* The presence state of one client: user is what its 'user' field holds.
\* present is FALSE when the state has no 'user' field, object is FALSE when
\* the field holds null or a primitive.
RawUser(id, name, joinedAt) ==
  [present |-> TRUE, object |-> TRUE, id |-> id, name |-> name, joinedAt |-> joinedAt]

NoUserField ==
  [present |-> FALSE, object |-> FALSE, id |-> Undefined, name |-> Undefined,
   joinedAt |-> Undefined]

UserNotAnObject ==
  [present |-> TRUE, object |-> FALSE, id |-> Undefined, name |-> Undefined,
   joinedAt |-> Undefined]

\* buildParticipant testing the type of the id only: it admits ''.
buildOfAnyId(payload, clock) ==
  IF ~payload.present THEN <<>>
  ELSE IF ~payload.object THEN <<>>
  ELSE IF ~IsString(payload.id) THEN <<>>
  ELSE <<[userId |-> payload.id.v,
          username |-> IF IsString(payload.name) /\ Len(trim(payload.name.v)) > 0
                         THEN trim(payload.name.v) ELSE DEFAULT_USERNAME,
          joinedAt |-> IF IsNumber(payload.joinedAt)
                         THEN payload.joinedAt ELSE Num(clock)]>>

\* buildParticipant(payload) when the clock reads clock: <<>> for null.
buildParticipant(payload, clock) ==
  IF ~payload.present THEN <<>>
  ELSE IF ~payload.object THEN <<>>
  ELSE IF ~(IsString(payload.id) /\ Len(payload.id.v) > 0) THEN <<>>
  ELSE <<[userId |-> payload.id.v,
          username |-> IF IsString(payload.name) /\ Len(trim(payload.name.v)) > 0
                         THEN trim(payload.name.v) ELSE DEFAULT_USERNAME,
          joinedAt |-> IF IsNumber(payload.joinedAt)
                         THEN payload.joinedAt ELSE Num(clock)]>>

(***************************************************************************)
(* Array.prototype.sort with a comparator (a, b) => key(a) - key(b)        *)
(***************************************************************************)

\* The comparator's result as the sort reads it: a NaN result counts as +0.
compareKeys(a, b) == IF IsNaN(a) \/ IsNaN(b) THEN 0 ELSE a.v[1] - b.v[1]

\* The last of the places whose key does not compare greater, 0 for none.
lastOf(notGreater) ==
  IF notGreater = {} THEN 0
  ELSE CHOOSE k \in notGreater : \A other \in notGreater : other <= k

insertAt(order, index, place) ==
  SubSeq(order, 1, place) \o <<index>> \o SubSeq(order, place + 1, Len(order))

\* The indices of keys in sorted order: each index in turn is placed after
\* the last index already placed whose key does not compare greater.
RECURSIVE sortedOrder(_, _, _)
sortedOrder(keys, index, order) ==
  IF index > Len(keys) THEN order
  ELSE sortedOrder(keys, index + 1,
                   insertAt(order, index,
                            lastOf({k \in 1..Len(order) :
                                      compareKeys(keys[order[k]], keys[index]) <= 0})))

permute(items, order) == [i \in 1..Len(items) |-> items[order[i]]]

sortByTimestamp(items) ==
  permute(items, sortedOrder([i \in 1..Len(items) |-> items[i].timestamp], 1, <<>>))

\* updateParticipants without its sort.
keepOrder(items) == items

sortByJoinedAt(items) ==
  permute(items, sortedOrder([i \in 1..Len(items) |-> items[i].joinedAt], 1, <<>>))

(***************************************************************************)
(* The store                                                               *)
(***************************************************************************)

VARIABLES
  knownRooms,    \* state.knownRooms
  sessions,      \* state.sessions: canonical room id -> RoomSession
  initialized,   \* state.initialized
  localStorage,  \* what window.localStorage holds under KNOWN_ROOMS_KEY
  now,           \* what Date.now() returns
  uuidCount,     \* how many ids crypto.randomUUID() has handed out
  lastOp,        \* the last operation: its name, room, effects in order, throw,
                 \* whether it is a disconnect right after the one that closed
                 \* the room's session, a markRoomKnown right after one of the
                 \* same room, or a createRoom whose loop drew again, and
                 \* whether an observer wrote to the session it was created with
  probe,         \* input and result of a function applied on its own
  registered,    \* the observers, callbacks and timers the sessions have
                 \* registered and nothing has removed: room and kind
  pc,            \* where a createRoom call in progress stands
  env,           \* import.meta.env and window.location, as read at load
  destroyed,     \* the documents of the sessions that were closed: room, and
                 \* which of the two observers are still attached to them
  roomView       \* the room view: mounted or not, its roomId prop, its
                 \* selfId, activeRoomId and roomMissing refs

vars ==
  <<knownRooms, sessions, initialized, localStorage, now, uuidCount, lastOp, probe,
    registered, pc, env, destroyed, roomView>>

\* The store as the operations below thread it: the state, what the running
\* operation has done so far, in order, whether it has thrown, and whether
\* an observer has assigned a view to the session it was created with.
Store ==
  [knownRooms |-> knownRooms, sessions |-> sessions, initialized |-> initialized,
   localStorage |-> localStorage, uuidCount |-> uuidCount, registered |-> registered,
   destroyed |-> destroyed, events |-> <<>>, raised |-> FALSE, captured |-> FALSE]

\* What an operation does besides assigning state: it opens a document and
\* its provider ("open"), pushes an entry on a log ("append"), runs a
\* session's cleanup ("cleanup"), deletes a key of the session map ("delete").
Event(kind, roomId, entry) == [kind |-> kind, roomId |-> roomId, entry |-> entry]

happened(st, kind, roomId, entry) ==
  [st EXCEPT !.events = Append(@, Event(kind, roomId, entry))]

includes(seq, x) == \E i \in 1..Len(seq) : seq[i] = x

addUnique(front, room) == IF includes(front, room) THEN front ELSE Append(front, room)

\* Array.from(new Set(rooms)): first occurrences, in order.
RECURSIVE unique(_)
unique(rooms) ==
  IF rooms = <<>> THEN <<>>
  ELSE addUnique(unique(SubSeq(rooms, 1, Len(rooms) - 1)), rooms[Len(rooms)])

normalizeAll(kept) == [i \in 1..Len(kept) |-> normalizeRoomId(kept[i].v)]

\* readKnownRooms(): the stored text parses to an array (its strings are
\* kept), to an object (its keys are kept), to something else, or not at all.
readKnownRooms(storage) ==
  IF storage.kind \in {"array", "object"}
    THEN normalizeAll(SelectSeq(storage.items, IsString))
    ELSE <<>>

ensureLoaded(st) ==
  IF st.initialized THEN st
  ELSE IF st.localStorage.readThrows THEN [st EXCEPT !.raised = TRUE]
  ELSE [st EXCEPT !.knownRooms = readKnownRooms(st.localStorage), !.initialized = TRUE]

\* window.localStorage.setItem(KNOWN_ROOMS_KEY, JSON.stringify(kept))
setItem(st, kept) ==
  [st EXCEPT !.localStorage =
     [@ EXCEPT !.kind = "array", !.items = [i \in 1..Len(kept) |-> Str(kept[i])]]]

persistKnownRooms(st, rooms) ==
  IF st.localStorage.writeThrows THEN [st EXCEPT !.raised = TRUE]
  ELSE setItem(st, unique(rooms))

\* markRoomKnown keeping the new room as the only known one.
pushAlone(loaded, normalizedId) ==
  persistKnownRooms([loaded EXCEPT !.knownRooms = <<normalizedId>>], <<normalizedId>>)

pushKnown(loaded, normalizedId) ==
  persistKnownRooms([loaded EXCEPT !.knownRooms = Append(@, normalizedId)],
                    Append(loaded.knownRooms, normalizedId))

\* markRoomKnown without the test that the room is known already.
markAgain(loaded, normalizedId) ==
  IF loaded.raised THEN loaded
  ELSE pushKnown(loaded, normalizedId)

markLoaded(loaded, normalizedId) ==
  IF loaded.raised THEN loaded
  ELSE IF includes(loaded.knownRooms, normalizedId) THEN loaded
  ELSE pushKnown(loaded, normalizedId)

markRoomKnown(st, roomId) == markLoaded(ensureLoaded(st), normalizeRoomId(roomId))

hasRoom(st, roomId) == includes(ensureLoaded(st).knownRooms, normalizeRoomId(roomId))

\* What the random source hands to generateRoomId: the text of
\* crypto.randomUUID(), or that of Math.random().toString(36) where the
\* host has no randomUUID.
Drawn(uuid, text) == [uuid |-> uuid, text |-> text]

\* String.prototype.replace(/-/g, '')
withoutHyphens(s) == SelectSeq(s, LAMBDA c : c # 45)

\* String.prototype.slice(0, 6) and slice(-6)
firstSix(s) == SubSeq(s, 1, IF Len(s) < 6 THEN Len(s) ELSE 6)

lastSix(s) == SubSeq(s, IF Len(s) < 6 THEN 1 ELSE Len(s) - 5, Len(s))

generateRoomId(draw) ==
  IF draw.uuid THEN toUpperCase(withoutHyphens(firstSix(draw.text)))
  ELSE toUpperCase(lastSix(draw.text))

\* createRoom keeping the id it has drawn, whatever the known rooms.
loopsNever(rooms, roomId) == FALSE

\* createRoom: the test of its while loop.
loops(rooms, roomId) == includes(rooms, roomId)

\* createRoom going round its loop without drawing again.
retrySame(roomId, draw) == roomId

\* createRoom: the body of its while loop.
retry(roomId, draw) == generateRoomId(draw)

\* A recomputation that a dropped entry ends: the entries after it are lost.
collectUntilDropped(first, rest) ==
  IF first = <<>> THEN [out |-> <<>>, draws |-> rest.draws]
  ELSE [out |-> first \o rest.out, draws |-> rest.draws]

collect(first, rest) == [out |-> first \o rest.out, draws |-> rest.draws]

\* yMessages.toArray().map(sanitizeMessage).filter(not null), with the number
\* of ids drawn on the way.
RECURSIVE sanitizeAll(_, _, _, _)
sanitizeRest(items, roomId, draws, clock, first) ==
  collect(first,
          sanitizeAll(Tail(items), roomId,
                      IF first # <<>> /\ drawsId(Head(items)) THEN draws + 1 ELSE draws,
                      clock))

sanitizeAll(items, roomId, draws, clock) ==
  IF items = <<>> THEN [out |-> <<>>, draws |-> draws]
  ELSE sanitizeRest(items, roomId, draws, clock,
                    sanitizeMessage(Head(items), roomId, draws, clock))

\* The last lines of updateMessages: the view goes to the session the map
\* holds under the room id, and to session itself when it holds none.
assignMessages(st, session, incoming, draws) ==
  IF session.roomId \in DOMAIN st.sessions
    THEN [st |-> [st EXCEPT !.sessions[session.roomId].messages = incoming,
                            !.uuidCount = draws],
          session |-> session]
    ELSE [st |-> [st EXCEPT !.uuidCount = draws, !.captured = TRUE],
          session |-> [session EXCEPT !.messages = incoming]]

sortMessages(st, session, result) ==
  assignMessages(st, session, sortByTimestamp(result.out), result.draws)

\* The observer of the log, created for session.
updateMessages(st, session, yMessages, clock) ==
  sortMessages(st, session, sanitizeAll(yMessages, session.roomId, st.uuidCount, clock))

RECURSIVE buildAll(_, _)
buildAll(states, clock) ==
  IF states = <<>> THEN <<>>
  ELSE buildParticipant(Head(states).user, clock) \o buildAll(Tail(states), clock)

assignParticipants(st, session, aggregated) ==
  IF session.roomId \in DOMAIN st.sessions
    THEN [st |-> [st EXCEPT !.sessions[session.roomId].participants = aggregated],
          session |-> session]
    ELSE [st |-> [st EXCEPT !.captured = TRUE],
          session |-> [session EXCEPT !.participants = aggregated]]

\* The observer of the presence set, created for session.
updateParticipants(st, session, awareness, clock) ==
  assignParticipants(st, session, sortByJoinedAt(buildAll(awareness, clock)))

\* awareness.getStates() after the state of clientID became user: a client
\* already in the map keeps its place, a new one goes last.
setState(awareness, clientID, user) ==
  IF \E i \in 1..Len(awareness) : awareness[i].clientID = clientID
    THEN [i \in 1..Len(awareness) |->
            IF awareness[i].clientID = clientID
              THEN [clientID |-> clientID, user |-> user] ELSE awareness[i]]
    ELSE Append(awareness, [clientID |-> clientID, user |-> user])

removeState(awareness, clientID) ==
  SelectSeq(awareness, LAMBDA entry : entry.clientID # clientID)

\* The 'user' field setLocalAwareness publishes.
localUser(user, joinedAt) ==
  RawUser(Str(user.id),
          Str(IF Len(trim(user.username)) > 0 THEN trim(user.username)
              ELSE DEFAULT_USERNAME),
          Num(joinedAt))

\* The client id of the local document in its own presence set.
LocalClient == 0

\* A log whose observer is not registered: the view stays as it was.
observeNothing(logged, roomId, clock) == logged

\* The log's observer on the session the map holds under roomId.
observeLog(logged, roomId, clock) ==
  updateMessages(logged, logged.sessions[roomId], logged.sessions[roomId].yMessages,
                 clock).st

\* session.yMessages.push([entry]) on the session the map holds under
\* roomId: the entry goes last and the log's observer runs.
pushEntry(st, roomId, entry, clock) ==
  observeLog(happened([st EXCEPT !.sessions[roomId].yMessages = Append(@, entry)],
                      "append", roomId, entry),
             roomId, clock)

\* recordSystemMessage without its guard on the session: with none it throws.
recordUnguarded(st, normalizedId, content, clock) ==
  IF normalizedId \notin DOMAIN st.sessions THEN [st EXCEPT !.raised = TRUE]
  ELSE pushEntry([st EXCEPT !.uuidCount = @ + 1], normalizedId,
                 RawMessage(Str(generateMessageId(st.uuidCount + 1)),
                            Str(TYPE_SYSTEM), Str(SYSTEM_USERID), Str(SYSTEM_USERNAME),
                            Str(cipherText(normalizedId, content)),
                            Num(clock), Bool(TRUE)),
                 clock)

recordIn(st, normalizedId, content, clock) ==
  IF normalizedId \notin DOMAIN st.sessions THEN st
  ELSE pushEntry([st EXCEPT !.uuidCount = @ + 1], normalizedId,
                 RawMessage(Str(generateMessageId(st.uuidCount + 1)),
                            Str(TYPE_SYSTEM), Str(SYSTEM_USERID), Str(SYSTEM_USERNAME),
                            Str(cipherText(normalizedId, content)),
                            Num(clock), Bool(TRUE)),
                 clock)

recordSystemMessage(st, roomId, content, clock) ==
  recordIn(st, normalizeRoomId(roomId), content, clock)

\* sendMessage encrypting the content as typed, not as trimmed.
sendUntrimmed(st, normalizedId, payload, trimmedContent, clock) ==
  IF normalizedId \notin DOMAIN st.sessions THEN st
  ELSE IF Len(trimmedContent) = 0 THEN st
  ELSE pushEntry([st EXCEPT !.uuidCount = @ + 1], normalizedId,
                 RawMessage(Str(generateMessageId(st.uuidCount + 1)),
                            Str(TYPE_CHAT), Str(payload.userId),
                            Str(IF Len(trim(payload.username)) > 0
                                  THEN trim(payload.username) ELSE DEFAULT_USERNAME),
                            Str(cipherText(normalizedId, payload.content)),
                            Num(clock), Bool(TRUE)),
                 clock)

sendIn(st, normalizedId, payload, trimmedContent, clock) ==
  IF normalizedId \notin DOMAIN st.sessions THEN st
  ELSE IF Len(trimmedContent) = 0 THEN st
  ELSE pushEntry([st EXCEPT !.uuidCount = @ + 1], normalizedId,
                 RawMessage(Str(generateMessageId(st.uuidCount + 1)),
                            Str(TYPE_CHAT), Str(payload.userId),
                            Str(IF Len(trim(payload.username)) > 0
                                  THEN trim(payload.username) ELSE DEFAULT_USERNAME),
                            Str(cipherText(normalizedId, trimmedContent)),
                            Num(clock), Bool(TRUE)),
                 clock)

sendMessage(st, roomId, payload, clock) ==
  sendIn(st, normalizeRoomId(roomId), payload, trim(payload.content), clock)

\* The presence observer on the session the map holds under roomId, once the
\* provider holds states.
observePresence(st, roomId, states, clock) ==
  updateParticipants([st EXCEPT !.sessions[roomId].awareness = states],
                     [st.sessions[roomId] EXCEPT !.awareness = states],
                     states, clock).st

\* provider.awareness.setLocalStateField('user', ...) on a session the map
\* holds: the presence observer runs when the state differs from the one held.
publishLocal(st, roomId, states, clock) ==
  IF states = st.sessions[roomId].awareness THEN st
  ELSE observePresence(st, roomId, states, clock)

setLocalAwareness(st, roomId, user, joinedAt, clock) ==
  publishLocal(st, roomId,
               setState(st.sessions[roomId].awareness, LocalClient,
                        localUser(user, joinedAt)),
               clock)

\* updateLocalUsername publishing the time of the call as joinedAt.
renameAtClock(st, normalizedId, user, clock) ==
  IF normalizedId \notin DOMAIN st.sessions THEN st
  ELSE setLocalAwareness(st, normalizedId, user, clock, clock)

renameIn(st, normalizedId, user, clock) ==
  IF normalizedId \notin DOMAIN st.sessions THEN st
  ELSE setLocalAwareness(st, normalizedId, user,
                         st.sessions[normalizedId].localJoinedAt, clock)

updateLocalUsername(st, roomId, user, clock) ==
  renameIn(st, normalizeRoomId(roomId), user, clock)

\* The explicit updateParticipants() call that ends initializeSession.
refreshParticipants(changed, states, clock) ==
  updateParticipants(changed.st, changed.session, states, clock)

\* setLocalAwareness on the session being built with no observer run: the
\* view waits for the next change of the presence set.
publishLater(viewed, states, clock) ==
  [viewed EXCEPT !.session.awareness = states]

\* setLocalAwareness on the session being built: the presence observer runs.
publishFirst(viewed, states, clock) ==
  refreshParticipants(
    updateParticipants(viewed.st, [viewed.session EXCEPT !.awareness = states],
                       states, clock),
    states, clock)

observeFirst(viewed, user, clock) ==
  publishFirst(viewed,
               setState(viewed.session.awareness, LocalClient,
                        localUser(user, viewed.session.localJoinedAt)),
               clock)

\* A handle the runtime holds for a session: the observer of its log
\* ("log"), the listener on its presence set ("presence"), a listener on its
\* provider ("peers", "synced"), a running interval ("interval").
Handle(roomId, kind) == [roomId |-> roomId, kind |-> kind]

\* yMessages.observe(updateMessages) and awareness.on('change', ...)
observing(st, roomId) ==
  [st EXCEPT !.registered = @ \cup {Handle(roomId, "log"), Handle(roomId, "presence")}]

\* initializeSession stamping the session with the epoch, not with Date.now().
initializeUnstamped(st, roomId, user, clock) ==
  observeFirst(
    updateMessages(
      happened(observing(st, roomId), "open", roomId, NotAnObject),
      [roomId |-> roomId, yMessages |-> <<>>, messages |-> <<>>,
       participants |-> <<>>, hasAnnouncedJoin |-> FALSE, localJoinedAt |-> 0,
       signaling |-> SIGNALING_ENDPOINTS,
       awareness |-> <<[clientID |-> LocalClient, user |-> NoUserField]>>],
      <<>>, clock),
    user, clock)

\* initializeSession(roomId, user): the session it returns, and the store,
\* which the observers read while the session is built.
initializeSession(st, roomId, user, clock) ==
  observeFirst(
    updateMessages(
      happened(observing(st, roomId), "open", roomId, NotAnObject),
      [roomId |-> roomId, yMessages |-> <<>>, messages |-> <<>>,
       participants |-> <<>>, hasAnnouncedJoin |-> FALSE, localJoinedAt |-> clock,
       signaling |-> SIGNALING_ENDPOINTS,
       awareness |-> <<[clientID |-> LocalClient, user |-> NoUserField]>>],
      <<>>, clock),
    user, clock)

\* connect replacing the map by one that holds the new session alone.
registerAlone(made, normalizedId) ==
  [made.st EXCEPT !.sessions = (normalizedId :> made.session)]

\* this.sessions[normalizedId] = session
registerSession(made, normalizedId) ==
  [made.st EXCEPT !.sessions = (normalizedId :> made.session) @@ @]

\* connect without the hasAnnouncedJoin test: it announces every time.
announceEveryJoin(opened, normalizedId, user, clock) ==
  [recordSystemMessage(opened, normalizedId, joinedText(user), clock)
     EXCEPT !.sessions[normalizedId].hasAnnouncedJoin = TRUE]

\* connect announcing the join without setting hasAnnouncedJoin.
announceUnflagged(opened, normalizedId, user, clock) ==
  IF ~opened.sessions[normalizedId].hasAnnouncedJoin
    THEN recordSystemMessage(opened, normalizedId, joinedText(user), clock)
    ELSE opened

announceJoin(opened, normalizedId, user, clock) ==
  IF ~opened.sessions[normalizedId].hasAnnouncedJoin
    THEN [recordSystemMessage(opened, normalizedId, joinedText(user), clock)
            EXCEPT !.sessions[normalizedId].hasAnnouncedJoin = TRUE]
    ELSE opened

\* connect without the lookup of the session: it builds one every time.
openAnother(known, normalizedId, user, clock) ==
  IF known.raised THEN known
  ELSE announceJoin(
         registerSession(initializeSession(known, normalizedId, user, clock),
                         normalizedId),
         normalizedId, user, clock)

openSession(known, normalizedId, user, clock) ==
  IF known.raised THEN known
  ELSE announceJoin(
         IF normalizedId \notin DOMAIN known.sessions
           THEN registerSession(initializeSession(known, normalizedId, user, clock),
                                normalizedId)
           ELSE setLocalAwareness(known, normalizedId, user,
                                  known.sessions[normalizedId].localJoinedAt, clock),
         normalizedId, user, clock)

connect(st, roomId, user, clock) ==
  openSession(markRoomKnown(st, normalizeRoomId(roomId)), normalizeRoomId(roomId),
              user, clock)

\* disconnect emptying the whole map of sessions.
removeEverySession(cleaned, normalizedId) ==
  happened([cleaned EXCEPT !.sessions = <<>>], "delete", normalizedId, NotAnObject)

\* delete this.sessions[normalizedId]
removeSession(cleaned, normalizedId) ==
  happened([cleaned EXCEPT !.sessions = [id \in (DOMAIN @) \ {normalizedId} |-> @[id]]],
           "delete", normalizedId, NotAnObject)

\* session.cleanup without unobserve and off: only what provider.destroy()
\* removes is removed.
releasedByDestroy(st, roomId) ==
  [st EXCEPT !.registered = @ \ {Handle(roomId, kind) : kind \in {"peers", "synced"}}]

\* The body of session.cleanup: unobserve and off remove the two observers,
\* and provider.destroy() removes every listener on the provider.
released(st, roomId) ==
  [st EXCEPT !.registered =
     @ \ {Handle(roomId, kind) : kind \in {"log", "presence", "peers", "synced"}}]

\* The document of the session of roomId and its provider are destroyed;
\* the runtime still holds the document with the observers nothing removed.
retired(st, roomId) ==
  [st EXCEPT !.destroyed =
     @ \cup {[roomId |-> roomId,
              observed |-> {kind \in {"log", "presence"} :
                              Handle(roomId, kind) \in st.registered}]}]

\* session.cleanup()
teardown(announced, normalizedId) ==
  removeSession(happened(retired(released(announced, normalizedId), normalizedId),
                         "cleanup", normalizedId, NotAnObject),
                normalizedId)

\* The session an observer of a destroyed document was created with, as far
\* as the observer assigns to it.
Captured(roomId) == [roomId |-> roomId, messages |-> <<>>, participants |-> <<>>]

\* The log of a destroyed document changes: updateMessages runs if it still
\* observes the log, on the session the map holds under the room id now.
lateLog(st, doc, yMessages, clock) ==
  IF "log" \in doc.observed
    THEN updateMessages(st, Captured(doc.roomId), yMessages, clock).st
    ELSE st

\* The presence set of a destroyed document changes: updateParticipants
\* runs if it still listens for the change.
latePresence(st, doc, states, clock) ==
  IF "presence" \in doc.observed
    THEN updateParticipants(st, Captured(doc.roomId), states, clock).st
    ELSE st

\* disconnect without the announcement.
leaveSilently(st, normalizedId, user, clock) == st

announceLeft(st, normalizedId, user, clock) ==
  IF st.sessions[normalizedId].hasAnnouncedJoin
    THEN [recordSystemMessage(st, normalizedId, leftText(user), clock)
            EXCEPT !.sessions[normalizedId].hasAnnouncedJoin = FALSE]
    ELSE st

\* disconnect running a cleanup although the map holds no session.
leaveStale(st, normalizedId, user, clock) ==
  IF normalizedId \notin DOMAIN st.sessions
    THEN happened(st, "cleanup", normalizedId, NotAnObject)
  ELSE teardown(announceLeft(st, normalizedId, user, clock), normalizedId)

leave(st, normalizedId, user, clock) ==
  IF normalizedId \notin DOMAIN st.sessions THEN st
  ELSE teardown(announceLeft(st, normalizedId, user, clock), normalizedId)

disconnect(st, roomId, user, clock) == leave(st, normalizeRoomId(roomId), user, clock)

getMessages(roomId) ==
  IF normalizeRoomId(roomId) \in DOMAIN sessions
    THEN sessions[normalizeRoomId(roomId)].messages ELSE <<>>

getParticipants(roomId) ==
  IF normalizeRoomId(roomId) \in DOMAIN sessions
    THEN sessions[normalizeRoomId(roomId)].participants ELSE <<>>

(***************************************************************************)
(* The room view (part_003)                                                *)
(*                                                                         *)
(* The handlers of the view thread the store and the view's refs: selfId,  *)
(* activeRoomId and roomMissing.                                           *)
(***************************************************************************)

\* The room view before it is mounted and after it is unmounted.
Unmounted ==
  [mounted |-> FALSE, roomId |-> <<>>, selfId |-> <<>>, activeRoomId |-> <<>>,
   roomMissing |-> FALSE]

\* const normalizedRoomId = computed(() => props.roomId.toUpperCase())
normalizedRoomId(roomId) == toUpperCase(roomId)

\* { id: selfId.value, username: username.value }
self(refs, username) == [id |-> refs.selfId, username |-> username]

\* leaveActiveRoom()
leaveActiveRoom(st, refs, username, clock) ==
  IF refs.activeRoomId = <<>> \/ refs.selfId = <<>> THEN [st |-> st, refs |-> refs]
  ELSE [st |-> disconnect(st, refs.activeRoomId, self(refs, username), clock),
        refs |-> [refs EXCEPT !.activeRoomId = <<>>]]

\* The end of joinRoomFlow: the catch around connect, and what the refs
\* become with and without a session.
joined(connected, refs, roomId) ==
  IF connected.raised
    THEN [st |-> [connected EXCEPT !.raised = FALSE],
          refs |-> [refs EXCEPT !.roomMissing = TRUE, !.activeRoomId = <<>>]]
    ELSE [st |-> connected,
          refs |-> [refs EXCEPT !.roomMissing = FALSE,
                                !.activeRoomId = normalizeRoomId(roomId)]]

\* joinRoomFlow(roomId), from roomStore.ensureLoaded() on.
joinLoaded(loaded, refs, roomId, username, clock) ==
  IF loaded.raised \/ refs.selfId = <<>> THEN [st |-> loaded, refs |-> refs]
  ELSE joined(connect(loaded, roomId, self(refs, username), clock), refs, roomId)

\* joinRoomFlow(roomId), with the id ensureSelfIdentity finds or makes.
joinRoomFlow(st, refs, roomId, selfId, username, clock) ==
  joinLoaded(ensureLoaded(st), [refs EXCEPT !.selfId = selfId], roomId, username, clock)

\* The watcher of normalizedRoomId.
watchRoomId(st, refs, nextId, prevId, selfId, username, clock) ==
  IF prevId # <<>>
    THEN joinRoomFlow(leaveActiveRoom(st, refs, username, clock).st,
                      leaveActiveRoom(st, refs, username, clock).refs,
                      nextId, selfId, username, clock)
    ELSE joinRoomFlow(st, refs, nextId, selfId, username, clock)

\* onBeforeUnmount
unmounted(left) == [st |-> left.st, refs |-> Unmounted]

(***************************************************************************)
(* The transport's configuration, as the drafts of the store in            *)
(* src/unnamed/part_001 and src/unnamed/part_002 resolve it                *)
(***************************************************************************)

\* '<id>', which stands for the room in an endpoint.
PLACEHOLDER == <<60, 105, 100, 62>>

\* part_001's FALLBACK_SIGNALING_ENDPOINT, the text of SIGNALING_ENDPOINTS[1].
FALLBACK_SIGNALING_ENDPOINT == SIGNALING_ENDPOINTS[1]

\* '/signal?room=<id>'
SIGNAL_PATH ==
  <<47, 115, 105, 103, 110, 97, 108, 63, 114, 111, 111, 109, 61>> \o PLACEHOLDER

\* 'https:', 'wss', 'ws', '://', ':', ',' and '?room='
HTTPS == <<104, 116, 116, 112, 115, 58>>

WSS == <<119, 115, 115>>

WS == <<119, 115>>

SCHEME_END == <<58, 47, 47>>

COLON == <<58>>

COMMA == <<44>>

ROOM_QUERY == <<63, 114, 111, 111, 109, 61>>

\* a ?? b
orElse(a, b) == IF a = Undefined THEN b ELSE a

\* String.prototype.indexOf: the first place of part in s, 0 when it has none.
RECURSIVE indexFrom(_, _, _)
indexFrom(s, part, from) ==
  IF from + Len(part) - 1 > Len(s) THEN 0
  ELSE IF SubSeq(s, from, from + Len(part) - 1) = part THEN from
  ELSE indexFrom(s, part, from + 1)

indexOf(s, part) == indexFrom(s, part, 1)

\* String.prototype.includes
includesText(s, part) == indexOf(s, part) > 0

\* String.prototype.replace with a string pattern: the first occurrence only.
replaceAt(s, at, part, by) ==
  IF at = 0 THEN s
  ELSE SubSeq(s, 1, at - 1) \o by \o SubSeq(s, at + Len(part), Len(s))

replace(s, part, by) == replaceAt(s, indexOf(s, part), part, by)

\* String.prototype.split(',')
RECURSIVE split(_)
splitAt(s, at) ==
  IF at = 0 THEN <<s>>
  ELSE <<SubSeq(s, 1, at - 1)>> \o split(SubSeq(s, at + 1, Len(s)))

split(s) == splitAt(s, indexOf(s, COMMA))

\* encodeURIComponent on a string without lone surrogates: the bytes of its
\* UTF-8 form, those of A-Z a-z 0-9 - _ . ! ~ * ' ( ) as they are and every
\* other as '%' and two hexadecimal digits.
IsUnreserved(byte) ==
  \/ byte \in 65..90
  \/ byte \in 97..122
  \/ byte \in 48..57
  \/ byte \in {45, 95, 46, 33, 126, 42, 39, 40, 41}

hexDigit(d) == IF d < 10 THEN 48 + d ELSE 55 + d

RECURSIVE percentEncode(_)
percentEncode(bytes) ==
  IF bytes = <<>> THEN <<>>
  ELSE (IF IsUnreserved(Head(bytes)) THEN <<Head(bytes)>>
        ELSE <<37, hexDigit(Head(bytes) \div 16), hexDigit(Head(bytes) % 16)>>)
       \o percentEncode(Tail(bytes))

encodeURIComponent(s) == percentEncode(encodeUtf8(s))

\* part_001, resolveEnvSignalingEndpoints(): the entries of
\* VITE_SIGNALING_ENDPOINTS or, when that is not set, of
\* VITE_SIGNALING_ENDPOINT, split at ',', trimmed, the empty ones dropped.
trimAll(items) == [i \in 1..Len(items) |-> trim(items[i])]

nonEmpty(items) == SelectSeq(items, LAMBDA item : Len(item) > 0)

resolveEnvSignalingEndpoints(environment) ==
  nonEmpty(trimAll(split(
    orElse(environment.VITE_SIGNALING_ENDPOINTS,
           orElse(environment.VITE_SIGNALING_ENDPOINT, Str(<<>>))).v)))

\* part_001, resolveBrowserSignalingEndpoint(): no endpoint, or one.
browserEndpoint(protocol, authority) ==
  <<protocol \o SCHEME_END \o authority \o SIGNAL_PATH>>

resolveForHost(location, protocol, fallbackPort) ==
  IF includesText(location.host, COLON)
    THEN browserEndpoint(protocol, location.host)
  ELSE IF Len(fallbackPort) > 0
    THEN browserEndpoint(protocol, location.hostname \o COLON \o fallbackPort)
  ELSE browserEndpoint(protocol, location.host)

resolveBrowserSignalingEndpoint(environment) ==
  IF ~environment.location.window THEN <<>>
  ELSE resolveForHost(environment.location,
                      IF environment.location.protocol = HTTPS THEN WSS ELSE WS,
                      trim(orElse(environment.VITE_SIGNALING_PORT, Str(<<>>)).v))

\* part_001, the module's SIGNALING_ENDPOINTS: the candidates, and each of
\* them once.
signalingCandidates(environment) ==
  unique(nonEmpty(resolveEnvSignalingEndpoints(environment)
                  \o resolveBrowserSignalingEndpoint(environment)
                  \o <<FALLBACK_SIGNALING_ENDPOINT>>))

\* part_001, resolveSignalingUrls(roomId)
resolveUrl(endpoint, roomId) ==
  IF includesText(endpoint, PLACEHOLDER)
    THEN replace(endpoint, PLACEHOLDER, encodeURIComponent(roomId))
    ELSE endpoint

resolveSignalingUrls(environment, roomId) ==
  [i \in 1..Len(signalingCandidates(environment)) |->
     resolveUrl(signalingCandidates(environment)[i], roomId)]

\* JSON.parse of the text of VITE_ICE_SERVERS: an array and its items, some
\* other value, or a throw; an item is an object that has 'urls', an object
\* that has none, or no object.
IceServer(urls) == [object |-> TRUE, urls |-> Str(urls)]

NoUrls == [object |-> TRUE, urls |-> Undefined]

NoServer == [object |-> FALSE, urls |-> Undefined]

IceText(kind, items) == [t |-> "string", kind |-> kind, items |-> items]

IceUnset == [t |-> "undefined", kind |-> "none", items |-> <<>>]

\* part_002, getIceServers(): nothing for a variable that is not set or is
\* '', for a text that does not parse and for one that is no array.
getIceServers(environment) ==
  IF environment.VITE_ICE_SERVERS.t = "undefined" THEN <<>>
  ELSE IF environment.VITE_ICE_SERVERS.kind = "empty" THEN <<>>
  ELSE IF environment.VITE_ICE_SERVERS.kind = "array"
    THEN SelectSeq(environment.VITE_ICE_SERVERS.items,
                   LAMBDA item : item.object /\ item.urls # Undefined)
  ELSE <<>>

\* part_002, getSignalingEndpoints(roomId)
getSignalingEndpoints(environment, roomId) ==
  IF environment.VITE_SIGNALING_ENDPOINT = Undefined THEN <<>>
  ELSE IF environment.VITE_SIGNALING_ENDPOINT.v = <<>> THEN <<>>
  ELSE <<environment.VITE_SIGNALING_ENDPOINT.v \o ROOM_QUERY \o roomId>>

\* part_001, initializeSession: the iceServers its provider is built with,
\* 'stun:8.152.98.245:3478' and 'turn:8.152.98.245:3478?transport=' with
\* 'tcp' and with 'udp'.
TURN_SERVER ==
  <<116, 117, 114, 110, 58, 56, 46, 49, 53, 50, 46, 57, 56, 46, 50, 52,
    53, 58, 51, 52, 55, 56, 63, 116, 114, 97, 110, 115, 112, 111, 114,
    116, 61>>

DEFAULT_ICE_SERVERS ==
  <<IceServer(<<115, 116, 117, 110, 58, 56, 46, 49, 53, 50, 46, 57, 56, 46, 50, 52,
               53, 58, 51, 52, 55, 56>>),
    IceServer(TURN_SERVER \o <<116, 99, 112>>),
    IceServer(TURN_SERVER \o <<117, 100, 112>>)>>

\* The session as part_002's initializeSession builds it: the provider is
\* given getSignalingEndpoints(roomId) and getIceServers().
configure(session, environment) ==
  [signaling |-> getSignalingEndpoints(environment, session.roomId),
   iceServers |-> getIceServers(environment)] @@ session

opened(st, roomId) ==
  /\ roomId \in DOMAIN st.sessions
  /\ \E i \in 1..Len(st.events) :
       st.events[i].kind = "open" /\ st.events[i].roomId = roomId

configured(connected, normalizedId, environment) ==
  IF opened(connected, normalizedId)
    THEN [connected EXCEPT !.sessions[normalizedId] = configure(@, environment)]
    ELSE connected

\* part_002, connect: connect, on a session built as above.
connectConfigured(st, roomId, user, clock, environment) ==
  configured(connect(st, roomId, user, clock), normalizeRoomId(roomId), environment)

\* part_001, initializeSession: setInterval(diagnoseConnection, 2000) and
\* the listeners on the provider's 'peers' and 'synced' events.
diagnosed(connected, normalizedId) ==
  IF opened(connected, normalizedId)
    THEN [connected EXCEPT !.registered =
            @ \cup {Handle(normalizedId, kind) : kind \in {"interval", "peers", "synced"}}]
    ELSE connected

\* part_001, connect: connect, on a session built as above.
connectDiagnosed(st, roomId, user, clock) ==
  diagnosed(connect(st, roomId, user, clock), normalizeRoomId(roomId))

\* No window, and nothing set in import.meta.env.
NoLocation == [window |-> FALSE, protocol |-> <<>>, host |-> <<>>, hostname |-> <<>>]

NoEnv ==
  [VITE_SIGNALING_ENDPOINTS |-> Undefined, VITE_SIGNALING_ENDPOINT |-> Undefined,
   VITE_SIGNALING_PORT |-> Undefined, VITE_ICE_SERVERS |-> IceUnset,
   location |-> NoLocation]

(***************************************************************************)
(* Bounds and inputs                                                       *)
(***************************************************************************)

\* The longest log an operation may leave in a session.
MaxLog == 3

\* How many ids the random source hands out.
MaxUuid == 3

\* The last reading of the clock.
MaxTime == 2

\* The longest text the cipher is applied to on its own.
MaxText == 2

\* The room ids callers pass: 'A', ' a', 'B'.
RoomInputs == {<<65>>, <<32, 97>>, <<66>>}

\* The room and the user of the specifications that follow one session.
ViewRoom == <<65>>

ViewUsers == {[id |-> <<117>>, username |-> <<120>>]}

\* A chat entry a peer running this code appends to the log of roomId.
PeerChat(roomId, id, text, timestamp) ==
  RawMessage(Str(id), Str(TYPE_CHAT), Str(<<112>>), Str(<<113>>),
             Str(cipherText(roomId, text)), timestamp, Bool(TRUE))

\* The blank chat entry, the blank system entry and the entry with no number
\* for a timestamp that peers append.
BlankChat == PeerChat(ViewRoom, <<110>>, <<32>>, Num(2))

BlankSystem ==
  RawMessage(Str(<<115>>), Str(TYPE_SYSTEM), Undefined, Undefined,
             Str(cipherText(ViewRoom, <<32>>)), Num(2), Bool(TRUE))

NaNChat == PeerChat(ViewRoom, <<107>>, <<103>>, NaN)

\* The entries peers append: a chat message 'h' at 3; a blank one; a blank
\* system message; a second chat message under the first one's id, at 2; one
\* stamped NaN; one in the clear from a peer that set no id, type, author or
\* timestamp; one whose content does not decode; and null.
PeerEntries ==
  {PeerChat(ViewRoom, <<109>>, <<104>>, Num(3)),
   BlankChat,
   BlankSystem,
   PeerChat(ViewRoom, <<109>>, <<103>>, Num(2)),
   NaNChat,
   RawMessage(Undefined, Undefined, Undefined, Undefined, Str(<<112>>), Undefined, Undefined),
   RawMessage(Str(<<102>>), Str(TYPE_CHAT), Str(<<112>>), Str(<<113>>),
              Str(ENCRYPTION_PREFIX \o <<33>>), Num(1), Bool(TRUE)),
   NotAnObject}

\* The presence states peers publish: those of 'p' joined at 1 and of 'r'
\* joined at 3; one under the local user's id 'u', joined at 2; one of 'p'
\* with a blank name and no joinedAt; one whose id is ''; one whose id is no
\* string; one whose 'user' is no object; one with no 'user'. A state reaches
\* the others as JSON, so NaN is not among the numbers it can carry.
PeerUsers ==
  {RawUser(Str(<<112>>), Str(<<113>>), Num(1)),
   RawUser(Str(<<114>>), Str(<<32, 113>>), Num(3)),
   RawUser(Str(<<117>>), Str(<<120>>), Num(2)),
   RawUser(Str(<<112>>), Str(<<32>>), Undefined),
   RawUser(Str(<<>>), Str(<<113>>), Num(1)),
   RawUser(Undefined, Str(<<113>>), Num(1)),
   UserNotAnObject,
   NoUserField}

\* The client ids of the peers.
PeerClients == {1, 2}

\* The rooms and the texts the cipher is applied to on its own: 'A', 'N',
\* '3' (the key streams of 'N' and '3' start with the same byte), and the
\* texts of at most MaxText units among 'a', ' ', U+00E9, U+4E2D, U+FEFF, and
\* the two halves of U+1F600.
CipherRooms == {<<65>>, <<78>>, <<51>>}

CipherUnits == {97, 32, 233, 20013, 65279, 55357, 56832}

CipherTexts == UNION {[1..n -> CipherUnits] : n \in 0..MaxText}

\* The tokens decryptContent is applied to as they are: the tag alone; the tag
\* and 'QQ==', base64 of one byte; the tag and '!', and the tag and 'Q',
\* which are no base64; the tag short of its last colon and 'QQ=='; ' ' and
\* the tag and 'QQ=='; 'p'.
CipherTokens ==
  {ENCRYPTION_PREFIX,
   ENCRYPTION_PREFIX \o <<81, 81, 61, 61>>,
   ENCRYPTION_PREFIX \o <<33>>,
   ENCRYPTION_PREFIX \o <<81>>,
   SubSeq(ENCRYPTION_PREFIX, 1, 8) \o <<81, 81, 61, 61>>,
   <<32>> \o ENCRYPTION_PREFIX \o <<81, 81, 61, 61>>,
   <<112>>}

\* What the build may set: VITE_SIGNALING_ENDPOINTS to '', 'x<id>',
\* 'x<id>, y' or 'x<id>,xA'; VITE_SIGNALING_ENDPOINT to 'y' or 'x<id>';
\* VITE_SIGNALING_PORT to '9'; VITE_ICE_SERVERS to '', to a text that does
\* not parse, to an object, to an empty array, or to an array of a server
\* 's', an object without 'urls' and null; and the page may be at
\* https://h or at http://h:8.
EnvEndpoints ==
  {Undefined, Str(<<>>), Str(<<120>> \o PLACEHOLDER),
   Str(<<120>> \o PLACEHOLDER \o <<44, 32, 121>>),
   Str(<<120>> \o PLACEHOLDER \o <<44, 120, 65>>)}

EnvEndpoint == {Undefined, Str(<<121>>), Str(<<120>> \o PLACEHOLDER)}

EnvPorts == {Undefined, Str(<<57>>)}

EnvIceServers ==
  {IceUnset, IceText("empty", <<>>), IceText("corrupt", <<>>), IceText("object", <<>>),
   IceText("array", <<>>), IceText("array", <<IceServer(<<115>>), NoUrls, NoServer>>)}

Locations ==
  {NoLocation,
   [window |-> TRUE, protocol |-> HTTPS, host |-> <<104>>, hostname |-> <<104>>],
   [window |-> TRUE, protocol |-> <<104, 116, 116, 112, 58>>, host |-> <<104, 58, 56>>,
    hostname |-> <<104>>]}

\* The rooms the configuration is resolved for: 'A' and 'A B'.
ConfigRooms == {<<65>>, <<65, 32, 66>>}

\* What the random source hands out: the uuids that start 'ab12cd34-' and
\* 'ab12cdef-', whose first six characters are the same, and the text '0.b'
\* of Math.random().
RoomDraws ==
  {Drawn(TRUE, <<97, 98, 49, 50, 99, 100, 51, 52, 45>>),
   Drawn(TRUE, <<97, 98, 49, 50, 99, 100, 101, 102, 45>>),
   Drawn(FALSE, <<48, 46, 98>>)}

\* The rooms 'A' and 'B', the entry a peer appends to either, in the clear,
\* and the presence state a peer publishes there: that of 'p'.
TwoRooms == {<<65>>, <<66>>}

PlainEntry ==
  RawMessage(Str(<<109>>), Str(TYPE_CHAT), Str(<<112>>), Str(<<113>>), Str(<<104>>),
             Num(1), Undefined)

OnePeer == {RawUser(Str(<<112>>), Str(<<113>>), Num(1))}

StoredNothing == [kind |-> "null", items |-> <<>>]

\* What localStorage may hold at start: nothing, a list with room 'b', text
\* that does not parse.
StoredValues ==
  {StoredNothing, [kind |-> "array", items |-> <<Str(<<98>>)>>],
   [kind |-> "corrupt", items |-> <<>>]}

NoOp ==
  [op |-> "none", roomId |-> <<>>, events |-> <<>>, raised |-> FALSE, again |-> FALSE,
   captured |-> FALSE]

\* No createRoom call is in progress.
Idle == [at |-> "idle", roomId |-> <<>>, retried |-> FALSE]

NoProbe ==
  [op |-> "none", roomId |-> <<>>, reader |-> <<>>, input |-> <<>>, token |-> <<>>,
   result |-> <<>>]

(***************************************************************************)
(* The store's operations as steps                                         *)
(***************************************************************************)

InBounds(st) ==
  /\ st.uuidCount <= MaxUuid
  /\ \A id \in DOMAIN st.sessions : Len(st.sessions[id].yMessages) <= MaxLog

\* The state an operation leaves, and the record of what it did, whoever
\* called it.
Leaves(result, op, roomId) ==
  \E st \in {result} :
  /\ pc = Idle
  /\ InBounds(st)
  /\ knownRooms' = st.knownRooms
  /\ sessions' = st.sessions
  /\ initialized' = st.initialized
  /\ localStorage' = st.localStorage
  /\ uuidCount' = st.uuidCount
  /\ registered' = st.registered
  /\ lastOp' = [op |-> op, roomId |-> normalizeRoomId(roomId), events |-> st.events,
                raised |-> st.raised,
                again |-> /\ op \in {"disconnect", "markRoomKnown"}
                          /\ lastOp.op = op
                          /\ lastOp.roomId = normalizeRoomId(roomId)
                          /\ op = "disconnect" => lastOp.events # <<>>,
                captured |-> st.captured]
  /\ destroyed' = st.destroyed
  /\ UNCHANGED <<now, probe, pc, env>>

\* An operation called from outside the room view.
Becomes(result, op, roomId) == Leaves(result, op, roomId) /\ UNCHANGED roomView

\* The state a step of createRoom leaves, the record of the step, and where
\* the call stands after it.
Stands(result, op, roomId, position) ==
  \E st \in {result} :
  /\ knownRooms' = st.knownRooms
  /\ initialized' = st.initialized
  /\ localStorage' = st.localStorage
  /\ lastOp' = [NoOp EXCEPT !.op = op, !.roomId = roomId, !.raised = st.raised,
                            !.again = pc.retried]
  /\ pc' = IF st.raised THEN Idle ELSE position
  /\ UNCHANGED <<sessions, now, uuidCount, probe, registered, env, destroyed, roomView>>

\* createRoom() as far as its loop: ensureLoaded() and the first id.
CreateRoomCalls(draw) ==
  /\ pc = Idle
  /\ Stands(ensureLoaded(Store), "generateRoomId", generateRoomId(draw),
            [at |-> "loop", roomId |-> generateRoomId(draw), retried |-> FALSE])

\* One round of the loop: the id is known, and another is drawn.
CreateRoomRetries(draw) ==
  /\ pc.at = "loop"
  /\ loops(knownRooms, pc.roomId)
  /\ Stands(Store, "generateRoomId", retry(pc.roomId, draw),
            [pc EXCEPT !.roomId = retry(pc.roomId, draw), !.retried = TRUE])

\* The loop ends: the id is pushed, the known rooms are persisted, and
\* createRoom returns the id.
CreateRoomReturns ==
  /\ pc.at = "loop"
  /\ ~loops(knownRooms, pc.roomId)
  /\ Stands(pushKnown(Store, pc.roomId), "createRoom", pc.roomId, Idle)

EnsureLoaded == Becomes(ensureLoaded(Store), "ensureLoaded", <<>>)

MarkRoomKnown(roomId) == Becomes(markRoomKnown(Store, roomId), "markRoomKnown", roomId)

Connect(roomId, user) == Becomes(connect(Store, roomId, user, now), "connect", roomId)

\* The left announcement is appended to a log that is then torn down, so the
\* bound on the logs that remain does not count it.
Disconnect(roomId, user) ==
  Becomes(disconnect(Store, roomId, user, now), "disconnect", roomId)

SendMessage(roomId, user, content) ==
  Becomes(sendMessage(Store, roomId,
                      [userId |-> user.id, username |-> user.username,
                       content |-> content], now),
          "sendMessage", roomId)

UpdateLocalUsername(roomId, user) ==
  Becomes(updateLocalUsername(Store, roomId, user, now), "updateLocalUsername", roomId)

RecordSystemMessage(roomId, content) ==
  Becomes(recordSystemMessage(Store, roomId, content, now), "recordSystemMessage", roomId)

\* The log after the merge has put entry at place.
mergeAt(log, entry, place) ==
  SubSeq(log, 1, place) \o <<entry>> \o SubSeq(log, place + 1, Len(log))

\* A peer's update reaches the document of an open session: its entry lands in
\* the log at the place the merge gives it, and the log's observer runs.
PeerAppends(roomId, entry, place) ==
  /\ roomId \in DOMAIN sessions
  /\ Len(sessions[roomId].yMessages) < MaxLog
  /\ place \in 0..Len(sessions[roomId].yMessages)
  /\ Becomes(observeLog([Store EXCEPT !.sessions[roomId].yMessages =
                                         mergeAt(@, entry, place)],
                        roomId, now),
             "peerAppends", roomId)

\* A peer's update puts at the front of the log an entry the log does not
\* hold yet.
PeerAppendsOnce(roomId, entry) ==
  /\ roomId \in DOMAIN sessions
  /\ ~includes(sessions[roomId].yMessages, entry)
  /\ PeerAppends(roomId, entry, 0)

\* A peer's presence state reaches an open session, and the presence
\* observer runs when it differs from the one held.
PeerPublishes(roomId, clientID, user) ==
  /\ roomId \in DOMAIN sessions
  /\ setState(sessions[roomId].awareness, clientID, user) # sessions[roomId].awareness
  /\ Becomes(observePresence(Store, roomId,
                             setState(sessions[roomId].awareness, clientID, user), now),
             "peerPublishes", roomId)

\* A peer's presence state is removed (it left, or timed out).
PeerLeaves(roomId, clientID) ==
  /\ roomId \in DOMAIN sessions
  /\ removeState(sessions[roomId].awareness, clientID) # sessions[roomId].awareness
  /\ Becomes(observePresence(Store, roomId,
                             removeState(sessions[roomId].awareness, clientID), now),
             "peerLeaves", roomId)

\* The transport delivers a peer's update to the document of a session that
\* was closed.
LateLogEvent(roomId, entry) ==
  \E doc \in destroyed :
    /\ doc.roomId = roomId
    /\ Becomes(lateLog(Store, doc, <<entry>>, now), "lateLogEvent", roomId)

\* The transport delivers a peer's presence state to the presence set of a
\* session that was closed.
LatePresenceEvent(roomId, user) ==
  \E doc \in destroyed :
    /\ doc.roomId = roomId
    /\ Becomes(latePresence(Store, doc, <<[clientID |-> 1, user |-> user]>>, now),
               "latePresenceEvent", roomId)

\* A handler of the room view has run.
Drives(result, op, roomId) ==
  /\ Leaves(result.st, op, roomId)
  /\ roomView' = result.refs

\* The view is mounted on the route of roomId: onMounted.
Mounts(roomId, user) ==
  /\ ~roomView.mounted
  /\ Drives(joinRoomFlow(Store, [Unmounted EXCEPT !.mounted = TRUE, !.roomId = roomId],
                         normalizedRoomId(roomId), user.id, user.username, now),
            "onMounted", normalizedRoomId(roomId))

\* The route changes to another room id while the view is mounted.
RouteChanges(roomId, user) ==
  /\ roomView.mounted
  /\ normalizedRoomId(roomId) # normalizedRoomId(roomView.roomId)
  /\ Drives(watchRoomId(Store, [roomView EXCEPT !.roomId = roomId],
                        normalizedRoomId(roomId), normalizedRoomId(roomView.roomId),
                        user.id, user.username, now),
            "watch", normalizedRoomId(roomId))

\* The leave button: handleBackToLobby, whose router.push unmounts the view
\* in a later step.
BackToLobby(user) ==
  /\ roomView.mounted
  /\ Drives(leaveActiveRoom(Store, roomView, user.username, now),
            "handleBackToLobby", roomView.activeRoomId)

\* The view is unmounted: onBeforeUnmount.
Unmounts(user) ==
  /\ roomView.mounted
  /\ Drives(unmounted(leaveActiveRoom(Store, roomView, user.username, now)),
            "onBeforeUnmount", roomView.activeRoomId)

\* handleSendMessage
ViewSends(user, content) ==
  /\ roomView.mounted
  /\ ~roomView.roomMissing /\ roomView.activeRoomId # <<>>
  /\ Leaves(sendMessage(Store, roomView.activeRoomId,
                        [userId |-> roomView.selfId, username |-> user.username,
                         content |-> content], now),
            "sendMessage", roomView.activeRoomId)
  /\ UNCHANGED roomView

Tick ==
  /\ now < MaxTime
  /\ now' = now + 1
  /\ lastOp' = NoOp
  /\ UNCHANGED <<knownRooms, sessions, initialized, localStorage, uuidCount, probe,
                 registered, pc, env, destroyed, roomView>>

\* encryptContent applied in room roomId to the text drawn, and
\* decryptContent applied in room reader to its result.
Encrypts ==
  /\ probe.op = "none"
  /\ probe.input \in CipherTexts
  /\ probe' = [probe EXCEPT !.op = "encrypt",
                            !.token = encryptContent(probe.roomId, probe.input)]
  /\ UNCHANGED <<knownRooms, sessions, initialized, localStorage, now, uuidCount, lastOp,
                 registered, pc, env, destroyed, roomView>>

Decrypts ==
  /\ probe.op = "encrypt"
  /\ probe' = [probe EXCEPT !.op = "decrypt",
                            !.result = decryptContent(probe.reader, probe.token)]
  /\ UNCHANGED <<knownRooms, sessions, initialized, localStorage, now, uuidCount, lastOp,
                 registered, pc, env, destroyed, roomView>>

\* decryptContent applied in room reader to the token drawn.
Reads ==
  /\ probe.op = "none"
  /\ probe.roomId = probe.reader
  /\ probe' = [probe EXCEPT !.op = "read",
                            !.token = probe.input,
                            !.result = decryptContent(probe.reader, probe.input)]
  /\ UNCHANGED <<knownRooms, sessions, initialized, localStorage, now, uuidCount, lastOp,
                 registered, pc, env, destroyed, roomView>>

\* part_001's resolveSignalingUrls, and part_002's getIceServers and
\* getSignalingEndpoints, applied on their own.
Applies(op, roomId, result) ==
  /\ pc = Idle
  /\ probe' = [NoProbe EXCEPT !.op = op, !.roomId = roomId, !.result = result]
  /\ UNCHANGED <<knownRooms, sessions, initialized, localStorage, now, uuidCount, lastOp,
                 registered, pc, env, destroyed, roomView>>

ResolvesSignalingUrls(roomId) ==
  Applies("resolveSignalingUrls", roomId, resolveSignalingUrls(env, roomId))

GetsIceServers == Applies("getIceServers", <<>>, getIceServers(env))

GetsSignalingEndpoints(roomId) ==
  Applies("getSignalingEndpoints", roomId, getSignalingEndpoints(env, roomId))

\* part_002's connect.
ConnectConfigured(roomId, user) ==
  Becomes(connectConfigured(Store, roomId, user, now, env), "connect", roomId)

\* part_001's connect.
ConnectDiagnosed(roomId, user) ==
  Becomes(connectDiagnosed(Store, roomId, user, now), "connect", roomId)

\* part_001: the provider emits 'synced' with synced true, and the listener
\* clears the interval.
Synced(roomId) ==
  /\ pc = Idle
  /\ Handle(roomId, "synced") \in registered
  /\ registered' = registered \ {Handle(roomId, "interval")}
  /\ lastOp' = [NoOp EXCEPT !.op = "synced", !.roomId = roomId]
  /\ UNCHANGED <<knownRooms, sessions, initialized, localStorage, now, uuidCount, probe,
                 pc, env, destroyed, roomView>>

(***************************************************************************)
(* Specifications                                                          *)
(***************************************************************************)

\* The store after defineStore's state(): nothing loaded, no session.
Constructed ==
  /\ knownRooms = <<>>
  /\ sessions = <<>>
  /\ initialized = FALSE
  /\ now = 1
  /\ uuidCount = 0
  /\ lastOp = NoOp
  /\ registered = {}
  /\ pc = Idle
  /\ destroyed = {}
  /\ roomView = Unmounted

\* localStorage holding stored, and throwing on the calls failing names.
Storage(stored, failing) ==
  [kind |-> stored.kind, items |-> stored.items,
   readThrows |-> failing = "all", writeThrows |-> failing \in {"write", "all"}]

Working == Storage(StoredNothing, "none")

\* Spec: every operation of the store on two rooms, within one reading of the
\* clock; two users connect, disconnect and rename, one of them sends. Storage starts empty; it works, or refuses writes,
\* or refuses reads and writes.
Init ==
  /\ Constructed
  /\ \E failing \in {"none", "write", "all"} : localStorage = Storage(StoredNothing, failing)
  /\ probe = NoProbe
  /\ env = NoEnv

Next ==
  \/ EnsureLoaded
  \/ \E roomId \in RoomInputs : MarkRoomKnown(roomId)
  \/ \E roomId \in RoomInputs, user \in Users : Connect(roomId, user)
  \/ \E roomId \in RoomInputs, user \in Users : Disconnect(roomId, user)
  \/ \E roomId \in RoomInputs, user \in ViewUsers, content \in ChatInputs :
       SendMessage(roomId, user, content)
  \/ \E roomId \in RoomInputs, user \in Users : UpdateLocalUsername(roomId, user)
  \/ \E roomId \in RoomInputs : RecordSystemMessage(roomId, Notice)

Spec == Init /\ [][Next]_vars

\* SpecView: one room that one user joins and leaves, two users and peers
\* that append to its log, and a clock that advances.
InitView ==
  /\ Constructed
  /\ localStorage = Working
  /\ probe = NoProbe
  /\ env = NoEnv

NextView ==
  \/ \E user \in ViewUsers : Connect(ViewRoom, user)
  \/ \E user \in ViewUsers : Disconnect(ViewRoom, user)
  \/ \E user \in Users, content \in ChatInputs : SendMessage(ViewRoom, user, content)
  \/ \E content \in SystemInputs : RecordSystemMessage(ViewRoom, content)
  \/ \E place \in 0..MaxLog, entry \in PeerEntries : PeerAppends(ViewRoom, entry, place)
  \/ Tick

SpecView == InitView /\ [][NextView]_vars

\* SpecPresence: one room, peers that publish and withdraw presence states,
\* and a clock that advances.
NextPresence ==
  \/ \E user \in Users : Connect(ViewRoom, user)
  \/ \E user \in Users : Disconnect(ViewRoom, user)
  \/ \E user \in Users : UpdateLocalUsername(ViewRoom, user)
  \/ \E clientID \in PeerClients, user \in PeerUsers :
       PeerPublishes(ViewRoom, clientID, user)
  \/ \E clientID \in PeerClients : PeerLeaves(ViewRoom, clientID)
  \/ Tick

SpecPresence == InitView /\ [][NextPresence]_vars

\* SpecStorage: the known rooms and one session, over every content and
\* failure of storage.
InitStorage ==
  /\ Constructed
  /\ \E stored \in StoredValues, failing \in {"none", "write", "all"} :
       localStorage = Storage(stored, failing)
  /\ probe = NoProbe
  /\ env = NoEnv

NextStorage ==
  \/ EnsureLoaded
  \/ \E roomId \in RoomInputs : MarkRoomKnown(roomId)
  \/ \E draw \in RoomDraws : CreateRoomCalls(draw)
  \/ \E draw \in RoomDraws : CreateRoomRetries(draw)
  \/ CreateRoomReturns
  \/ \E user \in ViewUsers : Connect(ViewRoom, user)
  \/ \E user \in ViewUsers : Disconnect(ViewRoom, user)

SpecStorage == InitStorage /\ [][NextStorage]_vars

\* SpecSessions: two rooms that one user joins, leaves, writes to and renames
\* themself in, while a peer appends an entry to the front of their logs,
\* once, and publishes and withdraws a presence state.
NextSessions ==
  \/ \E roomId \in TwoRooms, user \in ViewUsers : Connect(roomId, user)
  \/ \E roomId \in TwoRooms, user \in ViewUsers : Disconnect(roomId, user)
  \/ \E roomId \in TwoRooms, user \in ViewUsers :
       SendMessage(roomId, user, <<32, 104>>)
  \/ \E roomId \in TwoRooms, user \in Users : UpdateLocalUsername(roomId, user)
  \/ \E roomId \in TwoRooms : RecordSystemMessage(roomId, Notice)
  \/ \E roomId \in TwoRooms : PeerAppendsOnce(roomId, PlainEntry)
  \/ \E roomId \in TwoRooms, user \in OnePeer : PeerPublishes(roomId, 1, user)
  \/ \E roomId \in TwoRooms : PeerLeaves(roomId, 1)

SpecSessions == InitView /\ [][NextSessions]_vars

\* SpecReconnect: one room that one user joins, leaves and joins again and
\* writes to, a peer that appends and publishes, and a transport that still
\* delivers to the documents of closed sessions.
NextReconnect ==
  \/ \E user \in ViewUsers : Connect(ViewRoom, user)
  \/ \E user \in ViewUsers : Disconnect(ViewRoom, user)
  \/ \E user \in ViewUsers : SendMessage(ViewRoom, user, <<32, 104>>)
  \/ PeerAppendsOnce(ViewRoom, PlainEntry)
  \/ \E user \in OnePeer : PeerPublishes(ViewRoom, 1, user)
  \/ LateLogEvent(ViewRoom, PlainEntry)
  \/ \E user \in OnePeer : LatePresenceEvent(ViewRoom, user)
  \/ Tick

SpecReconnect == InitView /\ [][NextReconnect]_vars

\* SpecRoomView: the store as the room view drives it, on routes to rooms
\* 'A', 'b' and ' ', with storage that may refuse writes.
RouteRooms == {<<65>>, <<98>>, <<32>>}

InitRoomView ==
  /\ Constructed
  /\ \E failing \in {"none", "write"} : localStorage = Storage(StoredNothing, failing)
  /\ probe = NoProbe
  /\ env = NoEnv

NextRoomView ==
  \/ \E roomId \in RouteRooms, user \in ViewUsers : Mounts(roomId, user)
  \/ \E roomId \in RouteRooms, user \in ViewUsers : RouteChanges(roomId, user)
  \/ \E user \in ViewUsers : BackToLobby(user)
  \/ \E user \in ViewUsers : Unmounts(user)
  \/ \E user \in ViewUsers : ViewSends(user, <<32, 104>>)

SpecRoomView == InitRoomView /\ [][NextRoomView]_vars

\* SpecDiagnosis: part_001's store on two rooms that two users join and
\* leave, with providers that may report that they have synced.
NextDiagnosis ==
  \/ \E roomId \in TwoRooms, user \in Users : ConnectDiagnosed(roomId, user)
  \/ \E roomId \in TwoRooms, user \in Users : Disconnect(roomId, user)
  \/ \E roomId \in TwoRooms : Synced(roomId)

SpecDiagnosis == InitView /\ [][NextDiagnosis]_vars

\* SpecCreate: createRoom and markRoomKnown over what storage may hold, with
\* a random source that, while the loop of createRoom runs and an id is
\* left that is not known, does not withhold every such id for ever.
InitCreate ==
  /\ Constructed
  /\ \E stored \in StoredValues : localStorage = Storage(stored, "none")
  /\ probe = NoProbe
  /\ env = NoEnv

DrawsUnknown ==
  \E draw \in RoomDraws : CreateRoomRetries(draw) /\ ~includes(knownRooms, pc'.roomId)

NextCreate ==
  \/ \E roomId \in RoomInputs : MarkRoomKnown(roomId)
  \/ \E draw \in RoomDraws : CreateRoomCalls(draw)
  \/ \E draw \in RoomDraws : CreateRoomRetries(draw)
  \/ CreateRoomReturns

SpecCreate ==
  InitCreate /\ [][NextCreate]_vars /\ WF_vars(DrawsUnknown) /\ WF_vars(CreateRoomReturns)

\* SpecConfig: the resolvers of the drafts that read the transport's
\* configuration from the build's environment, on their own.
InitConfig ==
  /\ Constructed
  /\ localStorage = Working
  /\ probe = NoProbe
  /\ \E endpoints \in EnvEndpoints, endpoint \in EnvEndpoint, port \in EnvPorts,
        iceServers \in EnvIceServers, location \in Locations :
       env = [VITE_SIGNALING_ENDPOINTS |-> endpoints,
              VITE_SIGNALING_ENDPOINT |-> endpoint,
              VITE_SIGNALING_PORT |-> port,
              VITE_ICE_SERVERS |-> iceServers,
              location |-> location]

NextConfig ==
  \/ \E roomId \in ConfigRooms : ResolvesSignalingUrls(roomId)
  \/ GetsIceServers
  \/ \E roomId \in ConfigRooms : GetsSignalingEndpoints(roomId)

SpecConfig == InitConfig /\ [][NextConfig]_vars

\* SpecTransport: part_002's store opening and closing two rooms, over what
\* the build may set for the signaling endpoint and the relay servers, and
\* over storage that works or refuses writes.
InitTransport ==
  /\ Constructed
  /\ \E failing \in {"none", "write"} : localStorage = Storage(StoredNothing, failing)
  /\ probe = NoProbe
  /\ \E endpoint \in EnvEndpoint, iceServers \in EnvIceServers :
       env = [NoEnv EXCEPT !.VITE_SIGNALING_ENDPOINT = endpoint,
                           !.VITE_ICE_SERVERS = iceServers]

NextTransport ==
  \/ \E roomId \in RoomInputs, user \in ViewUsers : ConnectConfigured(roomId, user)
  \/ \E roomId \in RoomInputs, user \in ViewUsers : Disconnect(roomId, user)

SpecTransport == InitTransport /\ [][NextTransport]_vars

\* SpecCipher: the cipher on its own, on a writing room, a reading room and a
\* text or a token drawn at start.
InitCipher ==
  /\ Constructed
  /\ localStorage = Working
  /\ \E roomId \in CipherRooms, reader \in CipherRooms,
        input \in CipherTexts \cup CipherTokens :
       /\ input \in CipherTokens => reader = roomId
       /\ probe = [NoProbe EXCEPT !.roomId = roomId, !.reader = reader, !.input = input]
  /\ env = NoEnv

NextCipher ==
  \/ Encrypts
  \/ Decrypts
  \/ Reads

SpecCipher == InitCipher /\ [][NextCipher]_vars

(***************************************************************************)
(* Properties                                                              *)
(***************************************************************************)

\* The state of the store proper: what the operations may change.
storeVars == <<knownRooms, sessions, initialized, localStorage, uuidCount, registered>>

isSystemEntry(entry, contents) ==
  /\ entry.object
  /\ entry.type = Str(TYPE_SYSTEM)
  /\ entry.content \in contents

joinedContents(roomId) == {Str(cipherText(roomId, joinedText(user))) : user \in Users}

leftContents(roomId) == {Str(cipherText(roomId, leftText(user))) : user \in Users}

joinedEntries(log, roomId) ==
  {i \in 1..Len(log) : isSystemEntry(log[i], joinedContents(roomId))}

kindsOf(events) == [i \in 1..Len(events) |-> events[i].kind]

\* C1: however many times connect is called on a room, by whichever user and
\* under whichever spelling of its id, while no disconnect closes the session,
\* the session's log holds exactly one 'joined' announcement appended locally.
OneJoinedAnnouncement ==
  \A roomId \in DOMAIN sessions :
    Cardinality(joinedEntries(sessions[roomId].yMessages, roomId)) = 1

\* A connect on a room whose session is open, with other entries already in
\* its log: it has appended nothing.
RepeatedConnect ==
  /\ lastOp.op = "connect"
  /\ lastOp.events = <<>>
  /\ ~lastOp.raised
  /\ lastOp.roomId \in DOMAIN sessions
  /\ Len(sessions[lastOp.roomId].yMessages) > 1

\* C2: the session map holds at most one session per canonical room id (its
\* keys are canonical and each session sits under its own id), and a connect
\* whose id normalizes to the id of an open session keeps that session, with
\* its document, and opens no document or provider.
sameSession(before, after) ==
  /\ after.roomId = before.roomId
  /\ after.yMessages = before.yMessages
  /\ after.messages = before.messages
  /\ after.localJoinedAt = before.localJoinedAt
  /\ after.hasAnnouncedJoin = before.hasAnnouncedJoin

canonicalKeys(map) ==
  \A roomId \in DOMAIN map : roomId = normalizeRoomId(roomId) /\ map[roomId].roomId = roomId

connectReuses(op, before, after) ==
  (op.op = "connect" /\ op.roomId \in DOMAIN before) =>
    /\ op.events = <<>>
    /\ DOMAIN after = DOMAIN before
    /\ sameSession(before[op.roomId], after[op.roomId])

OneSessionPerRoom ==
  [][canonicalKeys(sessions') /\ connectReuses(lastOp', sessions, sessions')]_vars

\* Both rooms open, and the last connect found its room's session.
ConnectFoundSession ==
  /\ Cardinality(DOMAIN sessions) = 2
  /\ lastOp.op = "connect"
  /\ lastOp.events = <<>>
  /\ ~lastOp.raised

\* C3: a disconnect on a room with a session whose join was announced appends
\* exactly one 'left' announcement, then runs the session's cleanup, then
\* removes the session from the map; getMessages and getParticipants then
\* return the empty sequence for that room, under every spelling of its id.
emptyViews(canonicalId, map) ==
  \A roomId \in RoomInputs :
    normalizeRoomId(roomId) = canonicalId =>
      /\ (IF normalizeRoomId(roomId) \in DOMAIN map
            THEN map[normalizeRoomId(roomId)].messages ELSE <<>>) = <<>>
      /\ (IF normalizeRoomId(roomId) \in DOMAIN map
            THEN map[normalizeRoomId(roomId)].participants ELSE <<>>) = <<>>

disconnectCloses(op, before, after) ==
  (/\ op.op = "disconnect"
   /\ op.roomId \in DOMAIN before
   /\ before[op.roomId].hasAnnouncedJoin) =>
    /\ kindsOf(op.events) = <<"append", "cleanup", "delete">>
    /\ isSystemEntry(op.events[1].entry, leftContents(op.roomId))
    /\ \A i \in 1..3 : op.events[i].roomId = op.roomId
    /\ DOMAIN after = (DOMAIN before) \ {op.roomId}
    /\ emptyViews(op.roomId, after)

LeftThenTeardown == [][disconnectCloses(lastOp', sessions, sessions')]_vars

\* A disconnect has closed a session into whose log messages had been sent.
DisconnectClosed ==
  /\ lastOp.op = "disconnect"
  /\ Len(lastOp.events) = 3
  /\ lastOp.roomId \notin DOMAIN sessions
  /\ uuidCount > 2

\* C4: a disconnect on a room that has no session (the one before closed it,
\* or it never had one) does not throw, appends nothing, runs no cleanup and
\* changes nothing in the store.
disconnectIdle(op, before) ==
  (op.op = "disconnect" /\ op.roomId \notin DOMAIN before) =>
    /\ op.events = <<>>
    /\ ~op.raised
    /\ UNCHANGED storeVars

SecondDisconnectIdle == [][disconnectIdle(lastOp', sessions)]_vars

\* The second of two disconnects of a room in a row, the first of which
\* closed its session.
DisconnectedTwice ==
  /\ lastOp.op = "disconnect"
  /\ lastOp.again
  /\ lastOp.events = <<>>

\* C5: sendMessage, updateLocalUsername and recordSystemMessage on a room
\* with no session return without throwing and change neither the session
\* map, nor any session's log, views or presence, nor the known rooms.
idleWithoutSession(op, before) ==
  (/\ op.op \in {"sendMessage", "updateLocalUsername", "recordSystemMessage"}
   /\ op.roomId \notin DOMAIN before) =>
    /\ op.events = <<>>
    /\ ~op.raised
    /\ UNCHANGED storeVars

NoSessionNoEffect == [][idleWithoutSession(lastOp', sessions)]_vars

\* recordSystemMessage on a room with no session while the other room has one.
RecordedWithoutSession ==
  /\ lastOp.op = "recordSystemMessage"
  /\ lastOp.roomId \notin DOMAIN sessions
  /\ DOMAIN sessions # {}

\* The records the log's observer admits when it runs after draws ids have
\* been drawn and the clock reads clock, in the order of the log.
admitted(session, draws, clock) ==
  sanitizeAll(session.yMessages, session.roomId, draws, clock).out

\* The ways to arrange n records.
Rearrangements(n) == {q \in [1..n -> 1..n] : \A i, j \in 1..n : q[i] = q[j] => i = j}

\* view holds the records, each once and nothing else, arranged by q.
arranges(q, view, records) == \A k \in 1..Len(view) : view[k] = records[q[k]]

holdsExactly(view, records) ==
  /\ Len(view) = Len(records)
  /\ \E q \in Rearrangements(Len(view)) : arranges(q, view, records)

viewFollowsLog(session) ==
  \E draws \in 0..uuidCount, clock \in 1..now :
    holdsExactly(session.messages, admitted(session, draws, clock))

showsEntry(view, entry) ==
  \E k \in 1..Len(view) :
    /\ view[k].id = entry.id.v
    /\ view[k].type = "chat"
    /\ view[k].userId = entry.userId.v
    /\ view[k].timestamp = entry.timestamp

\* C6: between operations, the messages view of every session holds exactly
\* one record for each entry of its log that sanitizes to a record, and
\* nothing else; and the entry a sendMessage has appended is in what
\* getMessages returns as soon as the call is over.
ViewFollowsLog ==
  /\ \A roomId \in DOMAIN sessions : viewFollowsLog(sessions[roomId])
  /\ (lastOp.op = "sendMessage" /\ lastOp.events # <<>>) =>
       showsEntry(getMessages(lastOp.roomId), lastOp.events[1].entry)

\* A message has been sent into a log that holds an entry the sanitizer drops.
SentBesideDropped ==
  /\ lastOp.op = "sendMessage"
  /\ lastOp.events # <<>>
  /\ Len(getMessages(lastOp.roomId)) < Len(sessions[lastOp.roomId].yMessages)

isStamped(record) == record.timestamp.v # <<>>

stamp(record) == record.timestamp.v[1]

\* records[i] is shown before records[j] although it belongs after it: its
\* timestamp is greater, or equal with i the later entry of the log.
misplaced(records, i, j) ==
  /\ isStamped(records[i])
  /\ isStamped(records[j])
  /\ \/ stamp(records[j]) < stamp(records[i])
     \/ stamp(records[j]) = stamp(records[i]) /\ j < i

inOrder(q, records) ==
  \A k, l \in 1..Len(records) : k < l => ~misplaced(records, q[k], q[l])

ascending(view, records) ==
  /\ Len(view) = Len(records)
  /\ \E q \in Rearrangements(Len(view)) : arranges(q, view, records) /\ inOrder(q, records)

\* C7: whatever the log holds, getMessages returns the admitted entries by
\* ascending timestamp, entries of equal timestamp in the order of the log;
\* with no session it returns the empty sequence.
AscendingByTimestamp ==
  /\ \A roomId \in DOMAIN sessions :
       \E draws \in 0..uuidCount, clock \in 1..now :
         ascending(getMessages(roomId), admitted(sessions[roomId], draws, clock))
  /\ \A roomId \in RoomInputs :
       normalizeRoomId(roomId) \notin DOMAIN sessions => getMessages(roomId) = <<>>

sentEntry(entry, canonicalId, user, content) ==
  /\ entry.object
  /\ entry.type = Str(TYPE_CHAT)
  /\ entry.userId = Str(user.id)
  /\ entry.content = Str(encryptContent(canonicalId, trim(content)))

sendAppends(roomId, user, content) ==
  (SendMessage(roomId, user, content) /\ normalizeRoomId(roomId) \in DOMAIN sessions) =>
    /\ DOMAIN sessions' = DOMAIN sessions
    /\ IF Len(trim(content)) = 0
         THEN /\ lastOp'.events = <<>>
              /\ sessions' = sessions
         ELSE /\ kindsOf(lastOp'.events) = <<"append">>
              /\ sentEntry(lastOp'.events[1].entry, normalizeRoomId(roomId), user, content)
              /\ sessions'[normalizeRoomId(roomId)].yMessages =
                   Append(sessions[normalizeRoomId(roomId)].yMessages,
                          lastOp'.events[1].entry)

\* C8: sendMessage on a room with a session appends nothing when the content
\* is blank after trimming; otherwise it appends exactly one entry, of type
\* chat, whose content is encrypt(canonical id, trimmed content) and whose
\* author id is the sender's.
SendAppendsOne ==
  [][lastOp'.op = "sendMessage" =>
       \A user \in Users, content \in ChatInputs : sendAppends(ViewRoom, user, content)]_vars

\* The user whose name is blank has sent a message into the session's log.
SentByUnnamed ==
  /\ lastOp.op = "sendMessage"
  /\ kindsOf(lastOp.events) = <<"append">>
  /\ lastOp.events[1].entry.userId = Str(<<118>>)

\* The content of an entry of the log once decrypted and trimmed.
shownContent(entry, roomId) ==
  trim(decryptContent(roomId, IF IsString(entry.content) THEN entry.content.v ELSE <<>>))

isChatEntry(entry) == entry.object /\ entry.type # Str(TYPE_SYSTEM)

shownAs(view, entry, type, content) ==
  \E k \in 1..Len(view) :
    view[k].id = entry.id.v /\ view[k].type = type /\ view[k].content = content

blankChatDropped(session) ==
  /\ \A k \in 1..Len(session.messages) :
       ~(session.messages[k].type = "chat" /\ session.messages[k].content = <<>>)
  /\ \A i \in 1..Len(session.yMessages) :
       (/\ isChatEntry(session.yMessages[i])
        /\ shownContent(session.yMessages[i], session.roomId) = <<>>) =>
         ~shownAs(session.messages, session.yMessages[i], "chat", <<>>)

systemKept(session) ==
  \A i \in 1..Len(session.yMessages) :
    (session.yMessages[i].object /\ session.yMessages[i].type = Str(TYPE_SYSTEM)) =>
      shownAs(session.messages, session.yMessages[i], "system",
              shownContent(session.yMessages[i], session.roomId))

\* C9: whatever local and remote appends made the log, no chat entry whose
\* content is empty once decrypted and trimmed is in what getMessages
\* returns, and every system entry is, one of empty content included.
BlankChatNeverShown ==
  \A roomId \in DOMAIN sessions :
    blankChatDropped(sessions[roomId]) /\ systemKept(sessions[roomId])

\* The log holds a blank chat entry and a blank system entry.
BlankOfBothTypes ==
  /\ ViewRoom \in DOMAIN sessions
  /\ \E i, j \in 1..Len(sessions[ViewRoom].yMessages) :
       /\ sessions[ViewRoom].yMessages[i] = BlankChat
       /\ sessions[ViewRoom].yMessages[j] = BlankSystem

\* C10: for every room id R and every string S, decrypt(R, encrypt(R, S)) is
\* S, and encrypt(R, '') is '', with no version tag.
RoundTrip ==
  /\ (probe.op = "decrypt" /\ probe.reader = probe.roomId) => probe.result = probe.input
  /\ (probe.op # "none" /\ probe.input = <<>>) => probe.token = <<>>

\* The text of S in one room has been read in another.
readElsewhere ==
  /\ probe.op = "decrypt"
  /\ probe.reader # probe.roomId
  /\ probe.input # <<>>

\* The number of bytes of the probe's text in UTF-8.
byteLength == Len(encodeUtf8(probe.input))

\* C11, as claimed: for canonical room ids R1 # R2 and every non-empty S,
\* decrypt(R2, encrypt(R1, S)) does not return S.
OtherRoomNeverReads == readElsewhere => probe.result # probe.input

\* C11, as amended: for canonical room ids R1 # R2 and every non-empty S that
\* holds no U+FFFD, decrypt(R2, encrypt(R1, S)) returns a text, and it returns
\* S only if the key streams of R1 and R2 agree on the first n bytes, n the
\* length of S in UTF-8.
OtherRoomReadsOnlyByEqualKeys ==
  (readElsewhere /\ \A i \in 1..Len(probe.input) : probe.input[i] # 65533) =>
    /\ probe.result \in Seq(0..65535)
    /\ probe.result = probe.input =>
         keyBytes(createKeyStream(probe.roomId), byteLength) =
           keyBytes(createKeyStream(probe.reader), byteLength)

\* A text of two bytes written in 'N' has been read in '3': the key streams
\* agree on the first byte only, and the text read is another one.
ReadInOtherRoom ==
  /\ readElsewhere
  /\ probe.roomId = <<78>>
  /\ probe.reader = <<51>>
  /\ byteLength = 2
  /\ probe.result # probe.input
  /\ probe.result # DECRYPT_FAILED

\* The token a probe handed to decryptContent carries the version tag.
taggedProbe ==
  /\ probe.op \in {"read", "decrypt"}
  /\ startsWith(probe.token, ENCRYPTION_PREFIX)

\* What follows the tag, as atob takes it.
probeBase64 == fromBase64(slice(probe.token, Len(ENCRYPTION_PREFIX)))

\* bytes are the UTF-8 form of a text: decoding them replaces nothing.
isUtf8(bytes) == encodeUtf8(utf8Decode(bytes, 1, 0, 0, 0, 128, 191)) = bytes

\* C12: decryptContent raises for no room id and no token: whenever decoding
\* the base64 of a tagged token fails, or decoding the bytes as UTF-8 fails,
\* it returns the fixed text '[消息解密失败]'.
FailureGivesSentinel ==
  taggedProbe =>
    /\ ~probeBase64.ok => probe.result = DECRYPT_FAILED
    /\ (probeBase64.ok /\ ~isUtf8(xorBytes(probe.reader, probeBase64.bytes))) =>
         probe.result = DECRYPT_FAILED

\* C13: decryptContent returns a token that does not start with 'enc::v1::'
\* as it is, in every room.
UntaggedUnchanged ==
  (probe.op \in {"read", "decrypt"} /\ ~startsWith(probe.token, ENCRYPTION_PREFIX)) =>
    probe.result = probe.token

\* The tag short of its last colon, followed by base64, has been read.
ReadNearlyTagged ==
  /\ probe.op = "read"
  /\ probe.token = SubSeq(ENCRYPTION_PREFIX, 1, 8) \o <<81, 81, 61, 61>>

\* An entry of the log with every field of a message in its type, whose
\* content decrypts to a text that is not blank.
wellFormed(entry, roomId) ==
  /\ entry.object
  /\ IsString(entry.id) /\ Len(trim(entry.id.v)) > 0
  /\ entry.type \in {Str(TYPE_CHAT), Str(TYPE_SYSTEM)}
  /\ IsString(entry.userId)
  /\ IsString(entry.username) /\ Len(trim(entry.username.v)) > 0
  /\ IsString(entry.content)
  /\ decryptContent(roomId, entry.content.v) # DECRYPT_FAILED
  /\ Len(shownContent(entry, roomId)) > 0
  /\ IsNumber(entry.timestamp)

showsWhole(view, entry, roomId) ==
  \E k \in 1..Len(view) :
    /\ view[k].id = entry.id.v
    /\ Str(IF view[k].type = "system" THEN TYPE_SYSTEM ELSE TYPE_CHAT) = entry.type
    /\ view[k].userId = entry.userId.v
    /\ view[k].username = entry.username.v
    /\ view[k].content = shownContent(entry, roomId)
    /\ view[k].timestamp = entry.timestamp

malformedAt(log, i) ==
  \/ ~log[i].object
  \/ log[i].content = Str(ENCRYPTION_PREFIX \o <<33>>)

\* C14: whatever peers have appended to the log (entries that are no
\* objects, that lack fields or hold them in another type, ciphertext that
\* does not decode), recomputing the view does not raise and the view holds
\* every well-formed entry of the log.
WellFormedEntriesShown ==
  /\ lastOp.op = "peerAppends" => ~lastOp.raised
  /\ \A roomId \in DOMAIN sessions :
       \A i \in 1..Len(sessions[roomId].yMessages) :
         wellFormed(sessions[roomId].yMessages[i], roomId) =>
           showsWhole(sessions[roomId].messages, sessions[roomId].yMessages[i], roomId)

\* A well-formed entry stands in the log after null and after an entry whose
\* ciphertext does not decode.
WellFormedAfterMalformed ==
  /\ ViewRoom \in DOMAIN sessions
  /\ Len(sessions[ViewRoom].yMessages) = 3
  /\ ~sessions[ViewRoom].yMessages[1].object
  /\ sessions[ViewRoom].yMessages[2].content = Str(ENCRYPTION_PREFIX \o <<33>>)
  /\ wellFormed(sessions[ViewRoom].yMessages[3], ViewRoom)

\* C15: the sanitizers are pure - applied again to the same raw entry they
\* return the same record - so that recomputing a view from the log as it
\* stands gives the ids, the timestamps and the order the view has.
RecomputingChangesNothing ==
  \A roomId \in DOMAIN sessions :
    /\ \A i \in 1..Len(sessions[roomId].yMessages) :
         \A draws \in 0..uuidCount, clock \in 1..now :
           sanitizeMessage(sessions[roomId].yMessages[i], roomId, draws, clock) =
             sanitizeMessage(sessions[roomId].yMessages[i], roomId, uuidCount, now)
    /\ sessions[roomId].messages =
         updateMessages(Store, sessions[roomId], sessions[roomId].yMessages, now)
           .st.sessions[roomId].messages

\* The presence state the local client has published in a session.
localState(session) ==
  session.awareness[CHOOSE i \in 1..Len(session.awareness) :
                      session.awareness[i].clientID = LocalClient].user

keepsJoinTime(before, after) ==
  \A roomId \in DOMAIN after :
    /\ localState(after[roomId]).joinedAt = Num(after[roomId].localJoinedAt)
    /\ roomId \in DOMAIN before =>
         after[roomId].localJoinedAt = before[roomId].localJoinedAt

\* C16: over every sequence of connect calls that find the session and of
\* updateLocalUsername calls, the joinedAt of the presence state the local
\* client publishes is the join time fixed when the session was created.
JoinTimeKept == [][keepsJoinTime(sessions, sessions')]_vars

\* The other user has taken over the session's presence state after the
\* clock has moved on from the time the session was created.
RenamedLater ==
  /\ lastOp.op = "updateLocalUsername"
  /\ ViewRoom \in DOMAIN sessions
  /\ sessions[ViewRoom].localJoinedAt < now
  /\ localState(sessions[ViewRoom]).id = Str(<<118>>)

\* The records updateParticipants admits from the presence states when the
\* clock reads clock, in the order of the states.
admittedStates(session, clock) == buildAll(session.awareness, clock)

ascendingJoinedAt(view) ==
  \A i, j \in 1..Len(view) : i < j => view[i].joinedAt.v[1] <= view[j].joinedAt.v[1]

\* C17: getParticipants returns the admitted presence entries by ascending
\* joinedAt, whatever the presence set, and the empty sequence for a room
\* with no session.
AscendingByJoinedAt ==
  /\ \A roomId \in DOMAIN sessions :
       /\ ascendingJoinedAt(getParticipants(roomId))
       /\ \E clock \in 1..now :
            holdsExactly(getParticipants(roomId), admittedStates(sessions[roomId], clock))
  /\ \A roomId \in RoomInputs :
       normalizeRoomId(roomId) \notin DOMAIN sessions => getParticipants(roomId) = <<>>

\* A peer that joined before the local user, and one that joined after, are
\* shown around it, though they published after it.
ShownAroundLocal ==
  /\ ViewRoom \in DOMAIN sessions
  /\ Len(getParticipants(ViewRoom)) = 3
  /\ getParticipants(ViewRoom)[1].joinedAt = Num(1)
  /\ getParticipants(ViewRoom)[2].joinedAt = Num(2)
  /\ getParticipants(ViewRoom)[2].userId = localState(sessions[ViewRoom]).id.v
  /\ getParticipants(ViewRoom)[3].joinedAt = Num(3)

\* C18: the participants view of a session never holds two entries with the
\* same peer id, whatever peers are connected and whatever they publish.
OneEntryPerPeerId ==
  \A roomId \in DOMAIN sessions :
    \A i, j \in 1..Len(sessions[roomId].participants) :
      i # j => sessions[roomId].participants[i].userId #
                 sessions[roomId].participants[j].userId

\* What the claim admits: an object with a nested user object whose id is a
\* string that is not empty.
admissible(user) ==
  /\ user.present
  /\ user.object
  /\ IsString(user.id)
  /\ user.id.v # <<>>

nameShown(user) ==
  IF ~IsString(user.name) THEN DEFAULT_USERNAME
  ELSE IF trim(user.name.v) = <<>> THEN DEFAULT_USERNAME
  ELSE trim(user.name.v)

showsParticipant(view, user) ==
  \E k \in 1..Len(view) :
    /\ view[k].userId = user.id.v
    /\ view[k].username = nameShown(user)
    /\ IF user.joinedAt.t = "number" THEN view[k].joinedAt = user.joinedAt
       ELSE view[k].joinedAt \in {Num(clock) : clock \in 1..now}

admissibleStates(states) == {i \in 1..Len(states) : admissible(states[i].user)}

\* C19: buildParticipant admits a presence state exactly when it is an
\* object with a nested user object whose id is a non-empty string; the
\* record has the default name when the name is absent or blank, and the
\* time of the call for joinedAt when joinedAt is no number; every other
\* state gives null.
AdmitsNonEmptyId ==
  \A roomId \in DOMAIN sessions :
    /\ Len(sessions[roomId].participants) =
         Cardinality(admissibleStates(sessions[roomId].awareness))
    /\ \A i \in admissibleStates(sessions[roomId].awareness) :
         showsParticipant(sessions[roomId].participants,
                          sessions[roomId].awareness[i].user)

\* One peer has published an id of '' and the other a blank name with no
\* joinedAt.
EmptyIdAndBlankName ==
  /\ ViewRoom \in DOMAIN sessions
  /\ \E i, j \in 1..Len(sessions[ViewRoom].awareness) :
       /\ sessions[ViewRoom].awareness[i].user.id = Str(<<>>)
       /\ sessions[ViewRoom].awareness[j].user.name = Str(<<32>>)
       /\ sessions[ViewRoom].awareness[j].user.joinedAt = Undefined

RECURSIVE withRoom(_, _)
withRoom(endpoint, roomId) ==
  IF endpoint = <<>> THEN <<>>
  ELSE IF startsWith(endpoint, PLACEHOLDER)
    THEN roomId \o slice(endpoint, Len(PLACEHOLDER))
  ELSE <<Head(endpoint)>> \o withRoom(Tail(endpoint), roomId)

\* C20: with no signaling configuration, the endpoints a session's provider
\* is constructed with are not empty and hold the built-in endpoint with the
\* canonical room id in the place of '<id>'.
EndpointNamesRoom ==
  \A roomId \in DOMAIN sessions :
    /\ sessions[roomId].signaling # <<>>
    /\ includes(sessions[roomId].signaling, withRoom(SIGNALING_ENDPOINTS[1], roomId))

\* The endpoints a variable names: its text split at ',', trimmed, without
\* the empty entries; none when it is not set.
entriesOf(value) ==
  IF value = Undefined THEN <<>> ELSE nonEmpty(trimAll(split(value.v)))

\* The candidates in the order of priority: the entries of
\* VITE_SIGNALING_ENDPOINTS, VITE_SIGNALING_ENDPOINT, the endpoint derived
\* from the page's host, the built-in endpoint.
prioritised(environment) ==
  entriesOf(environment.VITE_SIGNALING_ENDPOINTS)
  \o entriesOf(environment.VITE_SIGNALING_ENDPOINT)
  \o resolveBrowserSignalingEndpoint(environment)
  \o <<FALLBACK_SIGNALING_ENDPOINT>>

substituted(endpoints, roomId) ==
  [i \in 1..Len(endpoints) |-> withRoom(endpoints[i], encodeURIComponent(roomId))]

\* C21: the resolved signaling list is the candidates in the order of
\* priority (every entry of the multi-endpoint variable, the single endpoint,
\* the host-derived endpoint, the built-in one), each with the room in the
\* place of '<id>', every url once, at the place of its first occurrence.
ResolvedInPriorityOrder ==
  probe.op = "resolveSignalingUrls" =>
    probe.result = unique(substituted(prioritised(env), probe.roomId))

\* The relay configuration is unset, or is no JSON array.
relaysUnset ==
  env.VITE_ICE_SERVERS.t = "undefined" \/ env.VITE_ICE_SERVERS.kind # "array"

\* C22: with the relay configuration unset, or not a JSON array, a session's
\* provider is constructed with the built-in relay servers, not with an
\* empty list.
DefaultRelaysWhenUnset ==
  \A roomId \in DOMAIN sessions :
    relaysUnset =>
      /\ sessions[roomId].iceServers # <<>>
      /\ sessions[roomId].iceServers = DEFAULT_ICE_SERVERS

\* The list localStorage holds has roomId in it.
persisted(roomId) ==
  /\ localStorage.kind = "array"
  /\ includes(localStorage.items, Str(roomId))

createRoomReturned == lastOp.op = "createRoom" /\ ~lastOp.raised

\* C23: createRoom never returns an id that was among the known rooms when
\* it was called; once it has returned, hasRoom of the id is true and the
\* persisted list holds the id.
CreatedRoomIsNew ==
  [][createRoomReturned' =>
       /\ ~includes(knownRooms, lastOp'.roomId)
       /\ (hasRoom(Store, lastOp.roomId) /\ persisted(lastOp.roomId))']_vars

\* createRoom has returned a second room after markRoomKnown and an earlier
\* createRoom, on a store that had loaded a stored list.
CreatedBesideKnown ==
  /\ createRoomReturned
  /\ Len(knownRooms) >= 4
  /\ knownRooms[Len(knownRooms)] = lastOp.roomId

\* A random draw yields an id that is not known.
uncovered == \E draw \in RoomDraws : ~includes(knownRooms, generateRoomId(draw))

\* C24: createRoom terminates: while the known rooms leave an id the random
\* source can draw, a call that has entered its loop returns.
CreateRoomTerminates == (pc.at = "loop" /\ uncovered) ~> (pc.at = "idle")

\* createRoom has returned after its loop drew again.
ReturnedAfterRetry == createRoomReturned /\ lastOp.again

\* Every spelling of the room of the last operation.
spellings == {roomId \in RoomInputs : normalizeRoomId(roomId) = lastOp.roomId}

\* C25: a markRoomKnown that follows one of an id with the same canonical
\* form leaves the known rooms, in memory and in storage, as the first left
\* them; and once markRoomKnown has returned, hasRoom is true of every
\* spelling with that canonical form.
MarkedOnce ==
  [][lastOp'.op = "markRoomKnown" =>
       /\ (lastOp.op = "markRoomKnown" /\ lastOp.roomId = lastOp'.roomId) =>
             (knownRooms' = knownRooms /\ localStorage' = localStorage)
       /\ ~lastOp'.raised =>
             (\A roomId \in spellings : hasRoom(Store, roomId))']_vars

\* markRoomKnown has returned for the second time in a row for one room,
\* which is not the only room known.
MarkedTwice ==
  /\ lastOp.op = "markRoomKnown"
  /\ lastOp.again
  /\ ~lastOp.raised
  /\ Cardinality(spellings) = 2
  /\ Len(knownRooms) >= 2

\* C26: a failure of storage never reaches the caller: ensureLoaded,
\* markRoomKnown, createRoom and connect do not throw, whatever storage
\* holds and whether or not its reads and writes throw, and a store that has
\* loaded text that does not parse knows no room.
StorageFailureContained ==
  /\ lastOp.op \in {"ensureLoaded", "markRoomKnown", "generateRoomId", "createRoom",
                    "connect"} => ~lastOp.raised
  /\ (lastOp.op = "ensureLoaded" /\ localStorage.kind = "corrupt") => knownRooms = <<>>

\* The operation opened, cleaned up or deleted the session of roomId.
touched(events, roomId) ==
  \E i \in 1..Len(events) :
    events[i].roomId = roomId /\ events[i].kind \in {"open", "cleanup", "delete"}

\* The map holds after the step the session it held for roomId before it.
kept(roomId, before, after, events) ==
  /\ roomId \in DOMAIN after
  /\ after[roomId].localJoinedAt = before[roomId].localJoinedAt
  /\ Len(after[roomId].yMessages) >= Len(before[roomId].yMessages)
  /\ ~touched(events, roomId)

\* C27: a session leaves the map only through disconnect for its room; no
\* other operation, on its room or on another, and no change of a log or of
\* a presence set removes or replaces a session the map holds.
LeavesByDisconnectOnly ==
  [][\A roomId \in DOMAIN sessions :
       \/ lastOp'.op = "disconnect" /\ lastOp'.roomId = roomId
       \/ kept(roomId, sessions, sessions', lastOp'.events)]_vars

\* One of two open rooms has been closed, and the other, to whose log a peer
\* has appended, is still open.
ClosedOneOfTwo ==
  /\ lastOp.op = "disconnect"
  /\ touched(lastOp.events, lastOp.roomId)
  /\ \E roomId \in DOMAIN sessions :
       /\ roomId # lastOp.roomId
       /\ includes(sessions[roomId].yMessages, PlainEntry)

\* How many times the operation ran the cleanup of the session of roomId.
RECURSIVE cleanups(_, _)
cleanups(events, roomId) ==
  IF events = <<>> THEN 0
  ELSE (IF Head(events).kind = "cleanup" /\ Head(events).roomId = roomId THEN 1 ELSE 0)
       + cleanups(Tail(events), roomId)

\* C28: the cleanup of a session runs only in the step that removes the
\* session from the map, and once in it, so at most once for the session;
\* and once it has run, also for a session whose provider never synced, no
\* observer, listener or timer of the session is still registered.
TeardownOnceReleasesAll ==
  [][/\ \A roomId \in TwoRooms :
          cleanups(lastOp'.events, roomId) =
            IF roomId \in DOMAIN sessions /\ roomId \notin DOMAIN sessions' THEN 1 ELSE 0
     /\ \A handle \in registered' : handle.roomId \in DOMAIN sessions']_vars

\* C29: an observer of the log or of the presence set assigns its view only
\* to the session the map holds under its room id, and does nothing when the
\* map holds none: no operation has an observer assign a view to the session
\* the observer was created with.
ObserversWriteToMapOnly == ~lastOp.captured

\* C30: with no signaling endpoint configured, connect raises nothing and
\* leaves in the map a session of the room that has announced its join, has
\* no endpoint to signal through and lists no participant but its own user.
ConnectsWithoutSignaling ==
  (lastOp.op = "connect" /\ getSignalingEndpoints(env, lastOp.roomId) = <<>>) =>
    /\ ~lastOp.raised
    /\ normalizeRoomId(lastOp.roomId) \in DOMAIN sessions
    /\ LET session == sessions[normalizeRoomId(lastOp.roomId)]
       IN /\ session.hasAnnouncedJoin
          /\ session.signaling = <<>>
          /\ Len(session.participants) <= 1

\* The participants view of roomId lists a participant whose id is id.
listsParticipant(map, roomId, id) ==
  /\ roomId \in DOMAIN map
  /\ \E i \in 1..Len(map[roomId].participants) : map[roomId].participants[i].userId = id

\* C31: when a connect that builds a new session returns, getParticipants
\* of the room already lists a participant with the id of the connecting
\* user, with no event from a peer in between.
SelfListedOnConnect ==
  [][\A roomId \in RoomInputs, user \in Users :
       (/\ lastOp'.op = "connect" /\ lastOp'.roomId = roomId /\ ~lastOp'.raised
        /\ normalizeRoomId(roomId) \notin DOMAIN sessions
        /\ Connect(roomId, user))
         => listsParticipant(sessions', normalizeRoomId(roomId), user.id)]_vars

\* A connect built a session whose participants are the connecting user alone.
ListedAlone ==
  /\ lastOp.op = "connect" /\ ~lastOp.raised
  /\ \E i \in 1..Len(lastOp.events) : lastOp.events[i].kind = "open"
  /\ \E user \in Users :
       /\ listsParticipant(sessions, normalizeRoomId(lastOp.roomId), user.id)
       /\ Len(sessions[normalizeRoomId(lastOp.roomId)].participants) = 1

\* The operations of this layer that append to a log.
LocalAppenders == {"connect", "disconnect", "sendMessage", "recordSystemMessage"}

\* The string entry carries as content is empty, or is the version tag
\* with text behind it.
emptyOrTagged(entry) ==
  /\ IsString(entry.content)
  /\ \/ entry.content.v = <<>>
     \/ /\ startsWith(entry.content.v, ENCRYPTION_PREFIX)
        /\ Len(entry.content.v) > Len(ENCRYPTION_PREFIX)

\* C32: the content of every entry that sendMessage, recordSystemMessage,
\* connect or disconnect appends to a log is the empty string or starts
\* with the version tag, and the content of an entry sendMessage appends
\* is not empty.
LocalAppendsEncrypted ==
  \A i \in 1..Len(lastOp.events) :
    (lastOp.op \in LocalAppenders /\ lastOp.events[i].kind = "append") =>
      /\ emptyOrTagged(lastOp.events[i].entry)
      /\ lastOp.op = "sendMessage" => lastOp.events[i].entry.content.v # <<>>

\* sendMessage has appended a tagged entry to a log that holds a system
\* entry with the empty string for content.
SentAfterEmptyNotice ==
  /\ lastOp.op = "sendMessage"
  /\ kindsOf(lastOp.events) = <<"append">>
  /\ startsWith(lastOp.events[1].entry.content.v, ENCRYPTION_PREFIX)
  /\ \E i \in 1..Len(sessions[ViewRoom].yMessages) :
       /\ sessions[ViewRoom].yMessages[i].type = Str(TYPE_SYSTEM)
       /\ sessions[ViewRoom].yMessages[i].userId = Str(SYSTEM_USERID)
       /\ sessions[ViewRoom].yMessages[i].content = Str(<<>>)

\* C33: no two records of a session's messages view have the same id,
\* whatever the local operations and the peers have put in the log.
MessageIdsUnique ==
  \A roomId \in DOMAIN sessions :
    \A i, j \in 1..Len(sessions[roomId].messages) :
      sessions[roomId].messages[i].id = sessions[roomId].messages[j].id => i = j

leftEntries(log, roomId) ==
  {i \in 1..Len(log) : isSystemEntry(log[i], leftContents(roomId))}

\* The session connect has just built for roomId: its log holds the 'joined'
\* announcement of this connect and nothing else, its messages view that one
\* record, its participants the local user alone, and its join time is the
\* time of this connect.
freshSession(session, roomId, events, clock) ==
  /\ kindsOf(events) = <<"open", "append">>
  /\ isSystemEntry(events[2].entry, joinedContents(roomId))
  /\ session.yMessages = <<events[2].entry>>
  /\ session.localJoinedAt = clock
  /\ Len(session.messages) = 1
  /\ session.messages[1].type = "system"
  /\ \E user \in Users : session.messages[1].content = joinedText(user)
  /\ Len(session.participants) = 1
  /\ session.participants[1].joinedAt = Num(clock)
  /\ session.hasAnnouncedJoin

\* C34: a connect on a room whose session a disconnect has closed builds a
\* fresh session (a new log holding one new 'joined' announcement, views
\* computed from that log alone, the time of the call as join time), and a
\* disconnect closes a session whose log holds one local 'joined'
\* announcement and no 'left' one by appending one 'left' announcement.
ReconnectIsFresh ==
  [][/\ (/\ lastOp'.op = "connect" /\ ~lastOp'.raised
         /\ lastOp'.roomId \notin DOMAIN sessions) =>
          /\ lastOp'.roomId \in DOMAIN sessions'
          /\ freshSession(sessions'[lastOp'.roomId], lastOp'.roomId, lastOp'.events, now)
     /\ (lastOp'.op = "disconnect" /\ lastOp'.roomId \in DOMAIN sessions) =>
          /\ Cardinality(joinedEntries(sessions[lastOp'.roomId].yMessages,
                                       lastOp'.roomId)) = 1
          /\ leftEntries(sessions[lastOp'.roomId].yMessages, lastOp'.roomId) = {}
          /\ kindsOf(lastOp'.events) = <<"append", "cleanup", "delete">>
          /\ isSystemEntry(lastOp'.events[1].entry, leftContents(lastOp'.roomId))]_vars

\* A connect has built a session for the room after a disconnect closed an
\* earlier one, at a later time.
Reconnected ==
  /\ lastOp.op = "connect" /\ ~lastOp.raised
  /\ kindsOf(lastOp.events) = <<"open", "append">>
  /\ uuidCount >= 3
  /\ now > 0

\* C35: between operations every session the map holds has announced its
\* join, and so every disconnect of a room that has a session appends a
\* 'left' announcement.
EverySessionAnnounced ==
  /\ pc = Idle => \A roomId \in DOMAIN sessions : sessions[roomId].hasAnnouncedJoin
  /\ \A i \in 1..Len(lastOp.events) :
       (lastOp.op = "disconnect" /\ lastOp.events[i].kind = "delete") =>
         /\ i > 1
         /\ lastOp.events[1].kind = "append"
         /\ isSystemEntry(lastOp.events[1].entry, leftContents(lastOp.roomId))

\* A disconnect has announced and closed one session while the map holds
\* another.
LeftBesideOpen ==
  /\ lastOp.op = "disconnect"
  /\ kindsOf(lastOp.events) = <<"append", "cleanup", "delete">>
  /\ DOMAIN sessions # {}
  /\ lastOp.roomId \notin DOMAIN sessions

\* C36: an operation, or the firing of an observer, for one canonical room
\* id leaves the session of every other room as it was: its log, its two
\* views, its presence set and its hasAnnouncedJoin flag.
OtherRoomsUntouched ==
  [][\A roomId \in DOMAIN sessions :
       roomId # lastOp'.roomId =>
         /\ roomId \in DOMAIN sessions'
         /\ sessions'[roomId] = sessions[roomId]]_vars

\* The presence observer of one room has fired on a peer's state while the
\* other room's session lists the peer too and holds a message sent to it.
PeerSeenInBoth ==
  /\ lastOp.op = "peerPublishes"
  /\ \E roomId \in DOMAIN sessions :
       /\ roomId # lastOp.roomId
       /\ Len(sessions[roomId].participants) = 2
       /\ Len(sessions[roomId].yMessages) > 1
  /\ lastOp.roomId \in DOMAIN sessions
  /\ Len(sessions[lastOp.roomId].participants) = 2

\* The room ids hasRoom is asked about: those callers pass, the stored 'b',
\* and those createRoom makes.
AskedRooms == RoomInputs \cup {<<98>>} \cup {generateRoomId(draw) : draw \in RoomDraws}

\* hasRoom(roomId), called now, returns true.
knows(roomId) == ~ensureLoaded(Store).raised /\ hasRoom(Store, roomId)

\* C37: the known rooms only grow: a room id of which hasRoom returns true
\* still has hasRoom return true after every operation of the store,
\* disconnect of that room included.
KnownRoomsOnlyGrow ==
  [][\A roomId \in AskedRooms : knows(roomId) => knows(roomId)']_vars

\* A disconnect has closed the session of a room that the store still
\* knows, although storage refused to record it.
KnownAfterDisconnect ==
  /\ lastOp.op = "disconnect"
  /\ kindsOf(lastOp.events) = <<"append", "cleanup", "delete">>
  /\ knows(lastOp.roomId)
  /\ ~persisted(lastOp.roomId)

LateEvents == {"lateLogEvent", "latePresenceEvent"}

\* C38: once a session was closed by disconnect, no change of its log or of
\* its presence set changes anything in the store, whenever it arrives: in
\* particular not the messages and participants of the session a later
\* connect has built for the room.
LateEventsChangeNothing ==
  [][lastOp'.op \in LateEvents =>
       /\ sessions' = sessions
       /\ ~lastOp'.captured
       /\ UNCHANGED storeVars]_vars

\* A change of the old document arrives after the room was joined again and
\* the new session has received a message and a peer's presence state.
LateAfterReconnect ==
  /\ lastOp.op \in LateEvents
  /\ lastOp.roomId \in DOMAIN sessions
  /\ Len(sessions[lastOp.roomId].messages) = 2
  /\ Len(sessions[lastOp.roomId].participants) = 2

\* C39: driven by the room view alone, the store holds at most one session,
\* the one of the room the view is in, and none once the view is unmounted.
ViewClosesWhatItOpens ==
  /\ Cardinality(DOMAIN sessions) <= 1
  /\ DOMAIN sessions \subseteq {roomView.activeRoomId}
  /\ ~roomView.mounted => sessions = <<>>

====
